---- MODULE Spec2Model ----
(***************************************************************************)
(* Model of the EIR function builder (src/eir/src/new.rs): the intrusive   *)
(* Layout, the Function arenas and the cursor-based FunctionBuilder.       *)
(*                                                                         *)
(* Entity ids (Ebb, Op, Value, EbbCall) are dense indices into the arenas. *)
(* The Rust ids start at 0; here they start at 1 so that an id is the      *)
(* index of its record in the arena sequence, and 0 stands for None.       *)
(*                                                                         *)
(* Every Rust method is an operator from the builder record                *)
(*   self = [fun, current_ebb, current_op, state, panic]                   *)
(* to the builder record after the call.  A failed assert!, unwrap() of    *)
(* None, panic!() or unimplemented!() sets self.panic and keeps whatever   *)
(* the method had already written.  A panic ends the program: no action is *)
(* enabled once panicked holds.                                            *)
(***************************************************************************)
EXTENDS Integers, Sequences, FiniteSets, TLC

\* ---- bounds of the model ------------------------------------------------
\* entities (blocks, ops, values, block-calls) the arenas hold together
MaxEntities == 4
\* longest slice of values a caller passes
MaxArgs == 1
\* largest count a caller passes (num, num_values, num_results, num_clauses,
\* clause_num)
MaxNum == 1
\* bit width of the machine integer that stands for i64
W == 3

VARIABLES fun, current_ebb, current_op, state, panicked, inserted, pp, trace,
          calc

vars ==
    <<fun, current_ebb, current_op, state, panicked, inserted, pp, trace,
      calc>>

\* Option::None / PackedOption reserved value
None == 0

\* ---- BuilderState --------------------------------------------------------
Build == [tag |-> "Build", n |-> 0]

OutstandingEbbCalls(k) == [tag |-> "OutstandingEbbCalls", n |-> k]

\* ---- Layout --------------------------------------------------------------
EbbNodeDefault ==
    [prev |-> None, next |-> None, first_op |-> None, last_op |-> None]

OpNodeDefault == [ebb |-> None, prev |-> None, next |-> None]

\* Results of the Layout methods: the layout written so far and whether an
\* assertion failed.
LOk(l) == [layout |-> l, panic |-> FALSE]

LPanic(l) == [layout |-> l, panic |-> TRUE]

Layout_new ==
    [ebbs |-> <<>>, ops |-> <<>>, first_ebb |-> None, last_ebb |-> None]

\* Variant: insert_ebb_first without the assertions that the layout is empty.
insert_ebb_first_unchecked(l, ebb) ==
    LOk([l EXCEPT !.first_ebb = ebb, !.last_ebb = ebb])

insert_ebb_first(l, ebb) ==
    IF l.first_ebb # None THEN LPanic(l)
    ELSE IF l.last_ebb # None THEN LPanic(l)
    ELSE LOk([l EXCEPT !.first_ebb = ebb, !.last_ebb = ebb])

insert_ebb_after(l, prev, ebb) ==
    LET next == l.ebbs[prev].next
        l1 == [l EXCEPT !.ebbs[prev].next = ebb]
        l2 == [l1 EXCEPT !.ebbs[ebb].prev = prev]
        l3 == [l2 EXCEPT !.ebbs[ebb].next = next]
    IN  IF next # None
        THEN LOk([l3 EXCEPT !.ebbs[next].prev = ebb])
        ELSE LOk(l3)

insert_op_after(l, ebb, prev_op, op) ==
    IF l.ops[op].ebb # None THEN LPanic(l)
    ELSE
    LET l0 == [l EXCEPT !.ops[op].ebb = ebb]
    IN  IF prev_op # None
        THEN LET next == l0.ops[prev_op].next
                 l1 == [l0 EXCEPT !.ops[op].prev = prev_op,
                                  !.ops[op].next = next]
                 l2 == [l1 EXCEPT !.ops[prev_op].next = op]
             IN  IF next # None
                 THEN IF l2.ops[next].prev # prev_op THEN LPanic(l2)
                      ELSE LOk([l2 EXCEPT !.ops[next].prev = op])
                 ELSE IF l2.ebbs[ebb].last_op # prev_op THEN LPanic(l2)
                      ELSE LOk([l2 EXCEPT !.ebbs[ebb].last_op = op])
        ELSE LET next == l0.ebbs[ebb].first_op
                 l1 == [l0 EXCEPT !.ops[op].next = next]
                 l2 == [l1 EXCEPT !.ebbs[ebb].first_op = op]
             IN  IF next # None
                 THEN IF l2.ops[next].prev # None THEN LPanic(l2)
                      ELSE LOk([l2 EXCEPT !.ops[next].prev = op])
                 ELSE IF l2.ebbs[ebb].last_op # None THEN LPanic(l2)
                      ELSE LOk([l2 EXCEPT !.ebbs[ebb].last_op = op])

\* ---- OpKind --------------------------------------------------------------
\* A kind is its tag plus the payload the builder can set: the clause count
\* of Case / the clause number of CaseGuardFail (n) and the tail_call flag
\* of Call / Apply.  Identifiers, clause lists and environment indices are
\* opaque payloads that no builder code inspects.
Kind(tag, n) == [tag |-> tag, n |-> n, tail_call |-> FALSE]

\* OpKind::is_block_terminator is defined in op.rs; the kinds are the ones
\* the data model lists as closing a block.
is_block_terminator(kind) ==
    \/ kind.tag \in {"Jump", "ReturnOk", "ReturnThrow", "Case", "Unreachable"}
    \/ kind.tag \in {"Call", "Apply"} /\ kind.tail_call

\* ---- Function ------------------------------------------------------------
OpData(kind, reads, writes, ebb_calls) ==
    [kind |-> kind, reads |-> reads, writes |-> writes,
     ebb_calls |-> ebb_calls]

EbbData(arguments, finished) ==
    [arguments |-> arguments, finished |-> finished]

EbbCallData(block, values) == [block |-> block, values |-> values]

Function_new ==
    [layout |-> Layout_new, ops |-> <<>>, ebbs |-> <<>>, values |-> <<>>,
     ebb_calls |-> <<>>]

\* PrimaryMap::push on the value arena; the new id is Len(f.values) + 1.
new_variable(f) == [f EXCEPT !.values = Append(@, "Variable")]

\* Function::validate has an empty body: it accepts every function.
validate(f) == TRUE

RECURSIVE Walk(_, _, _)
\* The ids an EbbIter / OpIter yields from `start` following next[_].
Walk(next, start, fuel) ==
    IF start = None \/ fuel = 0 THEN <<>>
    ELSE <<start>> \o Walk(next, next[start], fuel - 1)

iter_ebb(f) ==
    Walk([e \in DOMAIN f.layout.ebbs |-> f.layout.ebbs[e].next],
         f.layout.first_ebb, Len(f.layout.ebbs) + 1)

iter_op(f, ebb) ==
    Walk([o \in DOMAIN f.layout.ops |-> f.layout.ops[o].next],
         f.layout.ebbs[ebb].first_op, Len(f.layout.ops) + 1)

\* ---- FunctionBuilder -----------------------------------------------------
FunctionBuilder_new(f) ==
    [fun |-> f, current_ebb |-> None, current_op |-> None, state |-> Build,
     panic |-> FALSE]

Panic(self) == [self EXCEPT !.panic = TRUE]

RECURSIVE push_variables(_, _)
\* the loop of gen_variables: num calls of Function::new_variable
push_variables(f, num) ==
    IF num = 0 THEN f ELSE push_variables(new_variable(f), num - 1)

\* args after the call: the num ids that were allocated
gen_variables_args(self, num) ==
    [i \in 1..num |-> Len(self.fun.values) + i]

gen_variables(self, num) == [self EXCEPT !.fun = push_variables(@, num)]

\* PrimaryMap::push on the op arena; the SecondaryMap of layout nodes holds
\* the default node for every id it has not been written at.
push_op(f, data) ==
    [f EXCEPT !.ops = Append(@, data),
              !.layout.ops = Append(@, OpNodeDefault)]

push_ebb(f) ==
    [f EXCEPT !.ebbs = Append(@, EbbData(<<>>, FALSE)),
              !.layout.ebbs = Append(@, EbbNodeDefault)]

insert_op(self, data) ==
    IF self.state # Build THEN Panic(self)
    ELSE IF self.current_ebb = None THEN Panic(self)
    ELSE IF self.fun.ebbs[self.current_ebb].finished THEN Panic(self)
    ELSE IF /\ self.current_op # None
            /\ self.fun.ops[self.current_op].kind.tag = "Jump"
         THEN Panic(self)
    ELSE LET f1 == push_op(self.fun, data)
             op == Len(f1.ops)
             r == insert_op_after(f1.layout, self.current_ebb,
                                  self.current_op, op)
             f2 == [f1 EXCEPT !.layout = r.layout]
         IN  IF r.panic THEN Panic([self EXCEPT !.fun = f2])
             ELSE [self EXCEPT !.fun = f2, !.current_op = op]

insert_ebb_entry(self) ==
    LET f1 == push_ebb(self.fun)
        ebb == Len(f1.ebbs)
        r == insert_ebb_first(f1.layout, ebb)
    IN  [self EXCEPT !.fun = [f1 EXCEPT !.layout = r.layout],
                     !.panic = r.panic]

insert_ebb(self) ==
    LET f1 == push_ebb(self.fun)
        ebb == Len(f1.ebbs)
    IN  IF self.current_ebb = None THEN Panic([self EXCEPT !.fun = f1])
        ELSE LET r == insert_ebb_after(f1.layout, self.current_ebb, ebb)
             IN  [self EXCEPT !.fun = [f1 EXCEPT !.layout = r.layout],
                              !.panic = r.panic]

finish_ebb(self, ebb) == [self EXCEPT !.fun.ebbs[ebb].finished = TRUE]

\* Variant: add_ebb_argument without the assertion that the block is open.
add_ebb_argument_unsealed(self, ebb) ==
    LET value == Len(self.fun.values) + 1
    IN  [self EXCEPT !.fun.values = Append(@, "Variable"),
                     !.fun.ebbs[ebb].arguments = Append(@, value)]

add_ebb_argument(self, ebb) ==
    IF self.fun.ebbs[ebb].finished THEN Panic(self)
    ELSE LET f1 == new_variable(self.fun)
             value == Len(f1.values)
         IN  [self EXCEPT
                !.fun = [f1 EXCEPT !.ebbs[ebb].arguments = Append(@, value)]]

\* Variant: position_at_end without the assertion on the last op.
position_at_end_unchecked(self, ebb) ==
    IF self.state # Build THEN Panic(self)
    ELSE [self EXCEPT !.current_ebb = ebb,
                      !.current_op = self.fun.layout.ebbs[ebb].last_op]

position_at_end(self, ebb) ==
    IF self.state # Build THEN Panic(self)
    ELSE LET last_op == self.fun.layout.ebbs[ebb].last_op
             s1 == [self EXCEPT !.current_ebb = ebb, !.current_op = last_op]
         IN  IF /\ last_op # None
                /\ is_block_terminator(self.fun.ops[last_op].kind)
             THEN Panic(s1)
             ELSE s1

\* BuilderPosition(current_ebb, current_op)
BuilderPosition(ebb, op) == <<ebb, op>>

position_store(self) == IF self.state # Build THEN Panic(self) ELSE self

\* Variant: position_load that restores the block and keeps the op.
position_load_ebb_only(self, pos) ==
    IF self.state # Build THEN Panic(self)
    ELSE [self EXCEPT !.current_ebb = pos[1]]

position_load(self, pos) ==
    IF self.state # Build THEN Panic(self)
    ELSE [self EXCEPT !.current_ebb = pos[1], !.current_op = pos[2]]

create_ebb_call(self, ebb, values) ==
    [self EXCEPT !.fun.ebb_calls = Append(@, EbbCallData(ebb, values))]

\* Variant: add_op_ebb_call that returns to Build on the first edge
\* whatever the count outstanding.
add_op_ebb_call_eager(self, call) ==
    IF self.state.tag = "OutstandingEbbCalls"
    THEN IF self.state.n = 0 \/ self.current_op = None THEN Panic(self)
         ELSE [self EXCEPT
                 !.fun.ops[self.current_op].ebb_calls = Append(@, call),
                 !.state = Build]
    ELSE self

\* `outstanding - 1` on a usize: the counter is never 0 in a state the builder
\* reaches, and the subtraction would overflow there.
add_op_ebb_call(self, call) ==
    IF self.state.tag = "OutstandingEbbCalls"
    THEN IF self.state.n = 0 THEN Panic(self)
         ELSE LET outstanding == self.state.n - 1
              IN  IF self.current_op = None THEN Panic(self)
                  ELSE [self EXCEPT
                          !.fun.ops[self.current_op].ebb_calls =
                              Append(@, call),
                          !.state = IF outstanding = 0 THEN Build
                                    ELSE OutstandingEbbCalls(outstanding)]
    ELSE self

deposition(self) == [self EXCEPT !.current_ebb = None, !.current_op = None]

create_atomic(self) == [self EXCEPT !.fun.values = Append(@, "Constant")]

create_constant(self) == [self EXCEPT !.fun.values = Append(@, "Constant")]

\* ---- op constructors ------------------------------------------------------
\* the id Function::new_variable returns when called on self
fresh(self) == Len(self.fun.values) + 1

alloc(self) == [self EXCEPT !.fun = new_variable(@)]

\* Variant: op_move with the read and write lists exchanged.
op_move_swapped(self, value) ==
    LET result == fresh(self)
    IN  insert_op(alloc(self),
                  OpData(Kind("Move", 0), <<result>>, <<value>>, <<>>))

op_move(self, value) ==
    LET result == fresh(self)
    IN  insert_op(alloc(self),
                  OpData(Kind("Move", 0), <<value>>, <<result>>, <<>>))

op_jump(self, ebb_call) ==
    insert_op(self, OpData(Kind("Jump", 0), <<>>, <<>>, <<ebb_call>>))

\* Variant: op_call that leaves the builder state alone.
op_call_nostate(self, module, name, args) ==
    LET reads == <<module, name>> \o args
        result_ok == fresh(self)
        result_err == fresh(alloc(self))
    IN  insert_op(alloc(alloc(self)),
                  OpData(Kind("Call", 0), reads,
                         <<result_ok, result_err>>, <<>>))

op_call(self, module, name, args) ==
    LET reads == <<module, name>> \o args
        result_ok == fresh(self)
        result_err == fresh(alloc(self))
        s1 == insert_op(alloc(alloc(self)),
                        OpData(Kind("Call", 0), reads,
                               <<result_ok, result_err>>, <<>>))
    IN  IF s1.panic THEN s1
        ELSE [s1 EXCEPT !.state = OutstandingEbbCalls(1)]

\* Variant: op_apply that records the function value and drops the arguments.
op_apply_noargs(self, f, args) ==
    LET result_ok == fresh(self)
        result_err == fresh(alloc(self))
        s1 == insert_op(alloc(alloc(self)),
                        OpData(Kind("Apply", 0), <<f>>,
                               <<result_ok, result_err>>, <<>>))
    IN  IF s1.panic THEN s1
        ELSE [s1 EXCEPT !.state = OutstandingEbbCalls(1)]

op_apply(self, f, args) ==
    LET reads == <<f>> \o args
        result_ok == fresh(self)
        result_err == fresh(alloc(self))
        s1 == insert_op(alloc(alloc(self)),
                        OpData(Kind("Apply", 0), reads,
                               <<result_ok, result_err>>, <<>>))
    IN  IF s1.panic THEN s1
        ELSE [s1 EXCEPT !.state = OutstandingEbbCalls(1)]

op_capture_named_function(self) ==
    LET result == fresh(self)
    IN  insert_op(alloc(self),
                  OpData(Kind("CaptureNamedFunction", 0), <<>>, <<result>>,
                         <<>>))

op_unpack_value_list(self, val_list, num) ==
    LET result == gen_variables_args(self, num)
    IN  insert_op(gen_variables(self, num),
                  OpData(Kind("UnpackValueList", 0), <<val_list>>, result,
                         <<>>))

op_pack_value_list(self, values) ==
    LET result == fresh(self)
    IN  insert_op(alloc(self),
                  OpData(Kind("PackValueList", 0), values, <<result>>, <<>>))

op_return_throw(self, value) ==
    insert_op(self, OpData(Kind("ReturnThrow", 0), <<value>>, <<>>, <<>>))

op_return_ok(self, value) ==
    insert_op(self, OpData(Kind("ReturnOk", 0), <<value>>, <<>>, <<>>))

op_unpack_env(self, value, num_values) ==
    LET results == gen_variables_args(self, num_values)
    IN  insert_op(gen_variables(self, num_values),
                  OpData(Kind("UnpackEnv", 0), <<value>>, results, <<>>))

op_bind_closure(self, env) ==
    LET result == fresh(self)
    IN  insert_op(alloc(self),
                  OpData(Kind("BindClosure", 0), <<env>>, <<result>>, <<>>))

op_make_tuple(self, values) ==
    LET result == fresh(self)
    IN  insert_op(alloc(self),
                  OpData(Kind("MakeTuple", 0), values, <<result>>, <<>>))

op_make_list(self, head, tail) ==
    LET reads == <<tail>> \o head
        result == fresh(self)
    IN  insert_op(alloc(self),
                  OpData(Kind("MakeList", 0), reads, <<result>>, <<>>))

\* assert!(kv.len() % 2 == 0); unimplemented!()
op_make_map(self) == Panic(self)

\* assert!(values.len() % 2 == 0); unimplemented!()
op_make_binary(self) == Panic(self)

\* the source gives this op the kind MakeList
op_make_no_value(self) ==
    LET result == fresh(self)
    IN  insert_op(alloc(self),
                  OpData(Kind("MakeList", 0), <<>>, <<result>>, <<>>))

op_make_closure_env(self, values) ==
    LET result == fresh(self)
    IN  insert_op(alloc(self),
                  OpData(Kind("MakeClosureEnv", 0), values, <<result>>, <<>>))

op_case_start(self, value, value_vars, body) ==
    LET result == fresh(self)
        reads == <<value>> \o value_vars
        s1 == create_ebb_call(alloc(self), body, <<>>)
        call == Len(s1.fun.ebb_calls)
    IN  insert_op(s1, OpData(Kind("CaseStart", 0), reads, <<result>>,
                             <<call>>))

op_case_body(self, case_val, num_clauses) ==
    LET s1 == insert_op(self, OpData(Kind("Case", num_clauses), <<case_val>>,
                                     <<>>, <<>>))
    IN  IF s1.panic THEN s1
        ELSE [s1 EXCEPT !.state = OutstandingEbbCalls(num_clauses + 1)]

op_case_values(self, case_val, num_results) ==
    LET results == gen_variables_args(self, num_results)
    IN  insert_op(gen_variables(self, num_results),
                  OpData(Kind("CaseValues", 0), <<case_val>>, results, <<>>))

op_case_guard_ok(self, case_val) ==
    insert_op(self, OpData(Kind("CaseGuardOk", 0), <<case_val>>, <<>>, <<>>))

op_case_guard_fail(self, case_val, clause_num) ==
    insert_op(self, OpData(Kind("CaseGuardFail", clause_num), <<case_val>>,
                           <<>>, <<>>))

op_branch_not_truthy(self, value, call) ==
    insert_op(self, OpData(Kind("IfTruthy", 0), <<value>>, <<>>, <<call>>))

\* unimplemented!()
op_receive_start(self) == Panic(self)

op_receive_wait(self) == Panic(self)

op_receive_get_message(self) == Panic(self)

op_unreachable(self) == Panic(self)

op_exc_trace(self) == Panic(self)

\* ---- Preprocessor ------------------------------------------------------------
\* Model of src/libeir_syntax_erl/src/preprocessor/preprocessor.rs.  The
\* variable pp holds the fields of the Preprocessor that its methods read and
\* write.  The token reader, the macro container, the directive parser and
\* the expression evaluator live in other files: the reader is the
\* environment, which hands over the next unit of the input (a raw token, a
\* macro call or a directive) on every turn of the loop of next_token.

\* conditional frames the input nests
MaxDepth == 2

\* A lexical token: its kind and its text.
Tok(t, v) == [t |-> t, v |-> v]

Dot == Tok("dot", ".")

\* A parsed directive `-d(arg).` as Reader::try_read hands it over.
Directive(d, arg) == [u |-> "directive", d |-> d, arg |-> arg]

\* MacroIdent::Const(name) / MacroIdent::Func(name, arity)
MacroIdent_Const(name) == [name |-> name, const |-> TRUE, arity |-> 0]

MacroIdent_Func(name, arity) == [name |-> name, const |-> FALSE, arity |-> arity]

\* A macro call `?name` (args absent) or `?name(a1, ..., an)` (argc = n).
MacroCall(name, has_args, argc) ==
    [u |-> "call", name |-> name, has_args |-> has_args, argc |-> argc]

\* A raw token of the input.
RawToken(tok) == [u |-> "token", tok |-> tok]

\* MacroDef: Static carries the number of variables (has_vars FALSE when the
\* definition has no parameter list) and the replacement, String its
\* symbol, Boolean its value, Dynamic its tokens, DelayedSubstitution its tag.
MacroDef(kind, has_vars, arity, body) ==
    [kind |-> kind, has_vars |-> has_vars, arity |-> arity, body |-> body]

\* MacroContainer, as a function from identities to definitions.
MacroContainer_insert(m, key, def) ==
    [k \in DOMAIN m \cup {key} |-> IF k = key THEN def ELSE m[k]]

MacroContainer_defined(m, name) == \E k \in DOMAIN m : k.name = name

MacroContainer_undef(m, name) ==
    [k \in {j \in DOMAIN m : j.name # name} |-> m[k]]

\* the identity a call is looked up by
CallIdent(call) ==
    IF call.has_args THEN MacroIdent_Func(call.name, call.argc)
    ELSE MacroIdent_Const(call.name)

\* Branch::new
Branch_new(entered) == [then_branch |-> TRUE, entered |-> entered]

\* Variant: the frame flips on every -else.
switch_to_else_branch_again(branch) ==
    [branch |-> [then_branch |-> FALSE, entered |-> ~branch.entered],
     ok |-> TRUE]

\* Branch::switch_to_else_branch: ok is FALSE for Err(()).
switch_to_else_branch(branch) ==
    IF ~branch.then_branch THEN [branch |-> branch, ok |-> FALSE]
    ELSE [branch |-> [then_branch |-> FALSE, entered |-> ~branch.entered],
          ok |-> TRUE]

\* Preprocessor::new with no seed container in the configuration.
Preprocessor_new(warnings_as_errors, no_warn) ==
    [can_directive_start |-> TRUE,
     branches |-> <<>>,
     macros |->
        [k \in {MacroIdent_Const("FUNCTION_NAME"),
                MacroIdent_Const("FUNCTION_ARITY")} |->
            MacroDef("DelayedSubstitution", FALSE, 0, <<>>)],
     expanded_tokens |-> <<>>,
     warnings_as_errors |-> warnings_as_errors,
     no_warn |-> no_warn,
     eof |-> FALSE,
     expanding |-> {}]

ignore(self) ==
    \E i \in 1..Len(self.branches) : ~self.branches[i].entered

\* Results of the methods that return Result<_, ()>: the preprocessor
\* afterwards, whether the result is Ok, the value, the errors handed to the
\* error sink, whether a warning was printed or an include injected, and
\* whether the method returns at all.
POk(self, value) ==
    [pp |-> self, ok |-> TRUE, value |-> value, errs |-> <<>>,
     warned |-> FALSE, injected |-> FALSE, returns |-> TRUE]

PErr(self, errs) ==
    [pp |-> self, ok |-> FALSE, value |-> <<>>, errs |-> errs,
     warned |-> FALSE, injected |-> FALSE, returns |-> TRUE]

\* A call that recurses without end: it returns nothing and hands nothing to
\* the error sink.
Diverges(self) == [PErr(self, <<>>) EXCEPT !.returns = FALSE]

\* try_expand_predefined_macro: the token of FILE, LINE and MACHINE.
try_expand_predefined_macro(call) ==
    IF call.name = "FILE" THEN <<Tok("string", "file")>>
    ELSE IF call.name = "LINE" THEN <<Tok("integer", "line")>>
    ELSE IF call.name = "MACHINE" THEN <<Tok("atom", "Lumen")>>
    ELSE <<>>

RECURSIVE expand_replacement(_, _)
RECURSIVE expand_userdefined_macro(_, _)
RECURSIVE expand_macro(_, _)

\* reader.unread_token of the tokens of a nested expansion: they are read
\* again, in front of the rest of the replacement; an error of the nested
\* expansion ends the loop.
Unread(self, nested, rest) ==
    IF ~nested.ok THEN nested
    ELSE expand_replacement(self, nested.value \o rest)

\* expanded.push_back(token) in front of what the rest of the loop pushes
Pushed(self, token, rest) ==
    IF ~rest.ok THEN rest ELSE POk(self, <<token>> \o rest.value)

\* expand_replacement with no bindings over a replacement that holds no
\* stringification and no identifier: the loop reads the replacement from
\* its own reader.  A macro call (the token "macro_call" stands for `?` and
\* the name) is expanded with expand_macro and its tokens are put back in
\* front of the reader; any other token is pushed to `expanded`.
expand_replacement(self, replacement) ==
    IF replacement = <<>> THEN POk(self, <<>>)
    ELSE IF Head(replacement).t = "macro_call"
    THEN Unread(self,
                expand_macro(self, MacroCall(Head(replacement).v, FALSE, 0)),
                Tail(replacement))
    ELSE Pushed(self, Head(replacement),
                expand_replacement(self, Tail(replacement)))

\* Variant: a Static definition is expanded whatever the argument count.
expand_userdefined_macro_anyargs(self, call) ==
    IF CallIdent(call) \notin DOMAIN self.macros
    THEN PErr(self, <<"UndefinedMacro">>)
    ELSE LET definition == self.macros[CallIdent(call)]
         IN  IF definition.kind \in {"Dynamic", "String", "Static"}
             THEN POk(self, definition.body)
             ELSE IF definition.kind = "BooleanTrue"
                  THEN POk(self, <<Tok("atom", "true")>>)
             ELSE IF definition.kind = "BooleanFalse" THEN POk(self, <<>>)
             ELSE POk(self, <<Tok("delayed", call.name)>>)

\* expand_userdefined_macro.  self.expanding holds the identities whose
\* replacement is being expanded further up the call stack: the method
\* takes &self, so a call met again below itself repeats the same
\* computation and the recursion has no end.
expand_userdefined_macro(self, call) ==
    IF CallIdent(call) \notin DOMAIN self.macros
    THEN PErr(self, <<"UndefinedMacro">>)
    ELSE LET definition == self.macros[CallIdent(call)]
         IN  IF definition.kind = "Dynamic" THEN POk(self, definition.body)
             ELSE IF definition.kind = "String"
                  THEN POk(self, definition.body)
             ELSE IF definition.kind = "BooleanTrue"
                  THEN POk(self, <<Tok("atom", "true")>>)
             ELSE IF definition.kind = "BooleanFalse" THEN POk(self, <<>>)
             ELSE IF definition.kind = "Static"
                  THEN LET arity == IF definition.has_vars
                                    THEN definition.arity ELSE 0
                           argc == IF call.has_args THEN call.argc ELSE 0
                       IN  IF arity # argc
                           THEN PErr(self, <<"BadMacroCall">>)
                           ELSE IF CallIdent(call) \in self.expanding
                           THEN Diverges(self)
                           ELSE [expand_replacement(
                                     [self EXCEPT !.expanding =
                                         @ \cup {CallIdent(call)}],
                                     definition.body)
                                   EXCEPT !.pp = self]
             ELSE POk(self, <<Tok("delayed", call.name)>>)

expand_macro(self, call) ==
    IF try_expand_predefined_macro(call) # <<>>
    THEN POk(self, try_expand_predefined_macro(call))
    ELSE expand_userdefined_macro(self, call)

\* The token units of a condition, by the name the directive carries.
ConditionTokens(condition) ==
    IF condition = "true" THEN <<RawToken(Tok("atom", "true"))>>
    ELSE IF condition = "false" THEN <<RawToken(Tok("atom", "false"))>>
    ELSE IF condition = "invalid" THEN <<RawToken(Tok("integer", "1"))>>
    ELSE IF condition = "macro" THEN <<MacroCall("X", FALSE, 0)>>
    ELSE IF condition = "eval_error" THEN <<RawToken(Tok("var", "V"))>>
    ELSE <<>>

\* clone_with: a preprocessor over the condition tokens with the caller's
\* macro definitions and flags, no branch, no expanded token and no
\* directive start.
clone_with(self, tokens) ==
    [can_directive_start |-> FALSE,
     branches |-> <<>>,
     macros |-> self.macros,
     expanded_tokens |-> <<>>,
     warnings_as_errors |-> self.warnings_as_errors,
     no_warn |-> self.no_warn,
     eof |-> FALSE,
     expanding |-> {},
     reader |-> tokens]

\* The tokens the clone yields to the parser: next_token of the clone until
\* its reader and its expanded tokens are empty, or its first error.
RECURSIVE CloneTokens(_)

\* the clone after a macro call: its expansion is queued in expanded_tokens,
\* or the error ends the iteration
CloneExpanded(r) ==
    IF ~r.ok THEN r
    ELSE CloneTokens([r.pp EXCEPT !.expanded_tokens = r.value])

\* Some(Ok(token)) of the clone, ahead of what it yields afterwards
Yield(token, rest) == [rest EXCEPT !.value = <<token>> \o @]

CloneTokens(clone) ==
    IF clone.expanded_tokens # <<>>
    THEN Yield(Head(clone.expanded_tokens),
               CloneTokens([clone EXCEPT !.expanded_tokens = Tail(@)]))
    ELSE IF clone.reader = <<>> THEN POk(clone, <<>>)
    ELSE IF Head(clone.reader).u = "call"
    THEN CloneExpanded(expand_macro([clone EXCEPT !.reader = Tail(@)],
                                    Head(clone.reader)))
    ELSE Yield(Head(clone.reader).tok,
               CloneTokens([clone EXCEPT !.reader = Tail(@)]))

\* The parser and the folding of the evaluator on the tokens `lexed` that
\* the clone yields: the folded term, or the error of the clone, of the
\* parser (the tokens are not one expression) or of the evaluator (the
\* expression is not constant).
Expr_parse(lexed) ==
    IF ~lexed.ok
    THEN [ok |-> FALSE, errs |-> lexed.errs, returns |-> lexed.returns]
    ELSE IF Len(lexed.value) # 1
    THEN [ok |-> FALSE, errs |-> <<"ParseError">>, returns |-> TRUE]
    ELSE IF lexed.value[1].t = "var"
    THEN [ok |-> FALSE, errs |-> <<"EvalError">>, returns |-> TRUE]
    ELSE [ok |-> TRUE, term |-> lexed.value[1], returns |-> TRUE]

\* Expr::parse_tokens(&mut adapter, pp) with the evaluator's folding
Expr_parse_tokens(clone) == Expr_parse(CloneTokens(clone))

\* the match of eval_conditional on what the parser and the evaluator
\* return: the atom true and the atom false are the two results; a failure
\* is reported as it is, any other term as InvalidConditional.
evaluator_eval(self, result) ==
    IF ~result.returns THEN Diverges(self)
    ELSE IF ~result.ok THEN PErr(self, result.errs)
    ELSE IF result.term = Tok("atom", "true") THEN POk(self, TRUE)
    ELSE IF result.term = Tok("atom", "false") THEN POk(self, FALSE)
    ELSE PErr(self, <<"InvalidConditional">>)

\* Variant: no clone is made; the preprocessor itself takes the clone's
\* settings and keeps them.
eval_conditional_inplace(self, condition) ==
    evaluator_eval([self EXCEPT !.can_directive_start = FALSE,
                                !.branches = <<>>],
                   Expr_parse_tokens(
                       clone_with(self, ConditionTokens(condition))))

\* eval_conditional: the condition is parsed by a clone of the preprocessor
\* (clone_with) and folded by the evaluator.  The clone is dropped: the
\* preprocessor itself is as it was.
eval_conditional(self, condition) ==
    evaluator_eval(self,
                   Expr_parse_tokens(
                       clone_with(self, ConditionTokens(condition))))

\* the branch stack without its last frame
PopBranch(branches) == SubSeq(branches, 1, Len(branches) - 1)

\* the arm Directive::Else of try_read_directive
Directive_Else(self, directive) ==
    IF self.branches = <<>> THEN PErr(self, <<"OrphanedElse">>)
    ELSE LET sw == switch_to_else_branch(self.branches[Len(self.branches)])
         IN  IF ~sw.ok THEN PErr(self, <<"OrphanedElse">>)
             ELSE POk([self EXCEPT
                         !.branches[Len(self.branches)] = sw.branch],
                      directive)

\* Variant: an -endif with nothing to close is accepted.
Directive_Endif_lenient(self, directive) ==
    IF self.branches = <<>> THEN POk(self, directive)
    ELSE POk([self EXCEPT !.branches = PopBranch(@)], directive)

\* the arm Directive::Endif of try_read_directive
Directive_Endif(self, directive) ==
    IF self.branches = <<>> THEN PErr(self, <<"OrphanedEnd">>)
    ELSE POk([self EXCEPT !.branches = PopBranch(@)], directive)

\* Variant: warnings_as_errors is tested before no_warn.
Directive_Warning_errorfirst(self, directive) ==
    IF self.warnings_as_errors THEN PErr(self, <<"CompilerError">>)
    ELSE IF self.no_warn THEN POk(self, directive)
    ELSE [POk(self, directive) EXCEPT !.warned = TRUE]

\* the arm Directive::Warning of try_read_directive, taken when not ignoring
Directive_Warning(self, directive) ==
    IF self.no_warn THEN POk(self, directive)
    ELSE IF self.warnings_as_errors THEN PErr(self, <<"CompilerError">>)
    ELSE [POk(self, directive) EXCEPT !.warned = TRUE]

\* try_read_directive once the reader has parsed `directive` at the current
\* position.  The value of an Ok result is the directive.
try_read_directive(self, directive) ==
    LET ign == ignore(self)
        d == directive.d
    IN  IF d = "module"
        THEN POk([self EXCEPT !.macros =
                    MacroContainer_insert(
                        MacroContainer_insert(
                            @, MacroIdent_Const("MODULE"),
                            MacroDef("String", FALSE, 0,
                                     <<Tok("string", directive.arg)>>)),
                        MacroIdent_Const("MODULE_STRING"),
                        MacroDef("String", FALSE, 0,
                                 <<Tok("string", directive.arg)>>))],
                 directive)
        ELSE IF d \in {"include", "include_lib"} /\ ~ign
        THEN IF directive.arg = "missing"
             THEN PErr(self, <<"BadDirective">>)
             ELSE [POk(self, directive) EXCEPT !.injected = TRUE]
        ELSE IF d = "define" /\ ~ign
        THEN POk([self EXCEPT !.macros =
                    MacroContainer_insert(
                        @, MacroIdent_Const(directive.arg),
                        MacroDef("Static", FALSE, 0,
                                 <<Tok("integer", "1")>>))],
                 directive)
        ELSE IF d = "undef" /\ ~ign
        THEN POk([self EXCEPT !.macros =
                    MacroContainer_undef(@, directive.arg)], directive)
        ELSE IF d = "ifdef"
        THEN LET entered == MacroContainer_defined(self.macros, directive.arg)
             IN  POk([self EXCEPT !.branches = Append(@, Branch_new(entered))],
                     directive)
        ELSE IF d = "if"
        THEN LET e == eval_conditional(self, directive.arg)
             IN  IF ~e.ok THEN e
                 ELSE POk([self EXCEPT !.branches =
                              Append(@, Branch_new(e.value))], directive)
        ELSE IF d = "ifndef"
        THEN LET entered == ~MacroContainer_defined(self.macros, directive.arg)
             IN  POk([self EXCEPT !.branches = Append(@, Branch_new(entered))],
                     directive)
        ELSE IF d = "else" THEN Directive_Else(self, directive)
        ELSE IF d = "elif"
        THEN IF self.branches = <<>> THEN PErr(self, <<"OrphanedElse">>)
             ELSE LET popped == [self EXCEPT !.branches = PopBranch(@)]
                      e == eval_conditional(popped, directive.arg)
                  IN  IF ~e.ok THEN e
                      ELSE POk([popped EXCEPT !.branches =
                                   Append(@, Branch_new(e.value))], directive)
        ELSE IF d = "endif" THEN Directive_Endif(self, directive)
        ELSE IF d = "error" /\ ~ign
        THEN PErr(self, <<"CompilerError">>)
        ELSE IF d = "warning" /\ ~ign THEN Directive_Warning(self, directive)
        ELSE POk(self, directive)

\* ModuleDirective::expand: the tokens `- module ( name ) .`
Module_expand(directive) ==
    <<Tok("minus", "-"), Tok("atom", "module"), Tok("lparen", "("),
      Tok("atom", directive.arg), Tok("rparen", ")"), Dot>>

\* ---- Integer (libeir_util_number) ----------------------------------------
\* the values of i64, at the width W
I64 == (0 - 2^(W - 1)) .. (2^(W - 1) - 1)

\* Integer::Small(i64) and Integer::Big(BigInt)
Small(v) == [tag |-> "Small", v |-> v]

Big(v) == [tag |-> "Big", v |-> v]

\* the result of an operation that panics
IntegerPanic == [tag |-> "panic", v |-> 0]

\* to_bigint: the value as a BigInt
to_bigint(self) == self.v

\* Variant: shrink leaves every value as it is.
shrink_never(self) == self

\* shrink: a Big whose value to_i64 can represent becomes Small.
shrink(self) ==
    IF self.tag = "Small" THEN self
    ELSE IF self.v \in I64 THEN Small(self.v)
    ELSE self

\* BigInt / BigInt: the quotient truncated toward zero
BigInt_div(lhs, rhs) ==
    LET magnitude == (IF lhs < 0 THEN 0 - lhs ELSE lhs)
                        \div (IF rhs < 0 THEN 0 - rhs ELSE rhs)
    IN  IF (lhs < 0) # (rhs < 0) THEN 0 - magnitude ELSE magnitude

\* BigInt % BigInt: the remainder, with the sign of the dividend
BigInt_rem(lhs, rhs) == lhs - rhs * BigInt_div(lhs, rhs)

\* impl Mul<&Integer> for Integer
Integer_mul(self, rhs) == shrink(Big(to_bigint(self) * rhs.v))

\* impl Div<&Integer> for Integer; BigInt division by zero panics
Integer_div(self, rhs) ==
    IF rhs.v = 0 THEN IntegerPanic
    ELSE shrink(Big(BigInt_div(to_bigint(self), rhs.v)))

\* impl Add<&Integer> for Integer
Integer_add(self, rhs) == shrink(Big(to_bigint(self) + rhs.v))

\* impl Sub<&Integer> for Integer
Integer_sub(self, rhs) == shrink(Big(to_bigint(self) - rhs.v))

\* impl Rem<&Integer> for Integer; BigInt remainder by zero panics
Integer_rem(self, rhs) ==
    IF rhs.v = 0 THEN IntegerPanic
    ELSE shrink(Big(BigInt_rem(to_bigint(self), rhs.v)))

\* impl Mul<i64> for Integer: the Small arm shrinks, the Big arm does not.
Integer_mul_i64(self, rhs) ==
    IF self.tag = "Small" THEN shrink(Big(self.v * rhs))
    ELSE Big(self.v * rhs)

\* impl Neg for Integer: the Small arm negates the i64, which overflows for
\* the least i64: a panic where overflow checks are compiled in, the wrapped
\* value where they are not; the Big arm does not shrink.
Integer_neg(self, overflow_checks) ==
    IF self.tag = "Big" THEN Big(0 - self.v)
    ELSE IF (0 - self.v) \in I64 THEN Small(0 - self.v)
    ELSE IF overflow_checks THEN IntegerPanic
    ELSE Small(((0 - self.v + 2^(W - 1)) % 2^W) - 2^(W - 1))

\* no operation applied yet
Calc_new == [op |-> "none", lhs |-> Small(0), rhs |-> Small(0),
             result |-> Small(0)]

\* nothing read yet: the start of the stream
NoUnit == [u |-> "none"]

NoTok == Tok("none", "")

Trace_new ==
    [unit |-> NoUnit, ret |-> "start", token |-> NoTok, errs |-> <<>>,
     warned |-> FALSE, injected |-> FALSE, reported |-> "none",
     followed |-> FALSE, chain |-> <<>>, after_dot |-> TRUE,
     wellformed |-> TRUE, plain |-> TRUE]

\* ---- the caller ------------------------------------------------------------
\* The builder as the variables hold it.
Self ==
    [fun |-> fun, current_ebb |-> current_ebb, current_op |-> current_op,
     state |-> state, panic |-> FALSE]

\* Arguments the caller can pass: ids the function has handed out.
Ebbs == 1..Len(fun.ebbs)

Values == 1..Len(fun.values)

EbbCalls == 1..Len(fun.ebb_calls)

Slices == {<<>>} \cup (IF MaxArgs >= 1 THEN {<<v>> : v \in Values} ELSE {})
              \cup (IF MaxArgs >= 2 THEN {<<v, w>> : v, w \in Values} ELSE {})

Nums == 0..MaxNum

\* BuilderPosition is Copy and position_store has no effect on the builder,
\* so the caller holds every position position_store can have returned: the
\* cursor was at (None, None) at the start, at (ebb, None) before the first
\* op of ebb went in, and at (ebb, op) when op went in; and position_store
\* succeeds there as soon as the builder is in Build, which it is whenever
\* position_load succeeds.
Positions ==
    {BuilderPosition(None, None)}
        \cup {BuilderPosition(ebb, None) : ebb \in Ebbs}
        \cup {BuilderPosition(fun.layout.ops[op].ebb, op) :
                 op \in {o \in 1..Len(fun.ops) : fun.layout.ops[o].ebb # None}}

\* Entities the arenas hold: blocks, ops, values and block-calls.
Entities ==
    Len(fun.ops) + Len(fun.ebbs) + Len(fun.values) + Len(fun.ebb_calls)

\* The caller makes a call that allocates only while the arenas hold fewer
\* than MaxEntities entities.
Room == Entities < MaxEntities

\* seq with x placed right after anchor (at the head when anchor is None)
InsertAfter(seq, anchor, x) ==
    IF anchor = None THEN <<x>> \o seq
    ELSE IF \E i \in 1..Len(seq) : seq[i] = anchor
         THEN LET i == CHOOSE i \in 1..Len(seq) : seq[i] = anchor
              IN  SubSeq(seq, 1, i) \o <<x>> \o SubSeq(seq, i + 1, Len(seq))
         ELSE Append(seq, x)

\* History of the insertions the layout was asked to make: the blocks in the
\* order the insertion positions give them, and the same for each block's ops.
Inserted(r) ==
    LET e1 == IF Len(r.fun.ebbs) > Len(fun.ebbs)
              THEN [ebbs |-> IF r.panic THEN inserted.ebbs
                             ELSE InsertAfter(inserted.ebbs, current_ebb,
                                              Len(r.fun.ebbs)),
                    ops |-> Append(inserted.ops, <<>>)]
              ELSE inserted
    IN  IF Len(r.fun.ops) > Len(fun.ops) /\ ~r.panic
        THEN [e1 EXCEPT !.ops[current_ebb] =
                            InsertAfter(@, current_op, Len(r.fun.ops))]
        ELSE e1

\* The call `name` returned, or panicked, leaving the builder as r.
Commit(name, r) ==
    /\ fun' = r.fun
    /\ current_ebb' = r.current_ebb
    /\ current_op' = r.current_op
    /\ state' = r.state
    /\ panicked' = r.panic
    /\ inserted' = Inserted(r)
    /\ UNCHANGED <<pp, trace, calc>>

Init ==
    /\ fun = Function_new
    /\ current_ebb = FunctionBuilder_new(Function_new).current_ebb
    /\ current_op = FunctionBuilder_new(Function_new).current_op
    /\ state = FunctionBuilder_new(Function_new).state
    /\ panicked = FALSE
    /\ inserted = [ebbs |-> <<>>, ops |-> <<>>]
    /\ pp = Preprocessor_new(FALSE, FALSE)
    /\ trace = Trace_new
    /\ calc = Calc_new

NewVariable ==
    /\ ~panicked /\ Room
    /\ Commit("new_variable", alloc(Self))

GenVariables ==
    /\ ~panicked
    /\ \E num \in Nums :
        /\ num > 0 => Room
        /\ Commit("gen_variables", gen_variables(Self, num))

Validate ==
    /\ ~panicked
    /\ Commit("validate", IF validate(fun) THEN Self ELSE Panic(Self))

InsertEbbEntry ==
    /\ ~panicked /\ Room
    /\ Commit("insert_ebb_entry", insert_ebb_entry(Self))

InsertEbb ==
    /\ ~panicked /\ Room
    /\ Commit("insert_ebb", insert_ebb(Self))

FinishEbb ==
    /\ ~panicked
    /\ \E ebb \in Ebbs : Commit("finish_ebb", finish_ebb(Self, ebb))

AddEbbArgument ==
    /\ ~panicked /\ Room
    /\ \E ebb \in Ebbs : Commit("add_ebb_argument", add_ebb_argument(Self, ebb))

PositionAtEnd ==
    /\ ~panicked
    /\ \E ebb \in Ebbs : Commit("position_at_end", position_at_end(Self, ebb))

PositionStore ==
    /\ ~panicked
    /\ Commit("position_store", position_store(Self))

PositionLoad ==
    /\ ~panicked
    /\ \E pos \in Positions : Commit("position_load", position_load(Self, pos))

CreateEbbCall ==
    /\ ~panicked /\ Room
    /\ \E ebb \in Ebbs, values \in Slices :
          Commit("create_ebb_call", create_ebb_call(Self, ebb, values))

AddOpEbbCall ==
    /\ ~panicked
    /\ \E call \in EbbCalls : Commit("add_op_ebb_call", add_op_ebb_call(Self, call))

Deposition ==
    /\ ~panicked
    /\ Commit("deposition", deposition(Self))

CreateAtomic ==
    /\ ~panicked /\ Room
    /\ Commit("create_atomic", create_atomic(Self))

CreateConstant ==
    /\ ~panicked /\ Room
    /\ Commit("create_constant", create_constant(Self))

\* ---- the op constructors as calls -------------------------------------------
OpMove ==
    /\ ~panicked /\ Room
    /\ \E value \in Values : Commit("op_move", op_move(Self, value))

OpJump ==
    /\ ~panicked /\ Room
    /\ \E ebb_call \in EbbCalls : Commit("op_jump", op_jump(Self, ebb_call))

OpCall ==
    /\ ~panicked /\ Room
    /\ \E module \in Values, name \in Values, args \in Slices :
          Commit("op_call", op_call(Self, module, name, args))

OpApply ==
    /\ ~panicked /\ Room
    /\ \E f \in Values, args \in Slices :
          Commit("op_apply", op_apply(Self, f, args))

OpCaptureNamedFunction ==
    /\ ~panicked /\ Room
    /\ Commit("op_capture_named_function", op_capture_named_function(Self))

OpUnpackValueList ==
    /\ ~panicked
    /\ \E val_list \in Values, num \in Nums :
          /\ Room
          /\ Commit("op_unpack_value_list",
                    op_unpack_value_list(Self, val_list, num))

OpPackValueList ==
    /\ ~panicked /\ Room
    /\ \E values \in Slices :
          Commit("op_pack_value_list", op_pack_value_list(Self, values))

OpReturnThrow ==
    /\ ~panicked /\ Room
    /\ \E value \in Values : Commit("op_return_throw", op_return_throw(Self, value))

OpReturnOk ==
    /\ ~panicked /\ Room
    /\ \E value \in Values : Commit("op_return_ok", op_return_ok(Self, value))

OpUnpackEnv ==
    /\ ~panicked
    /\ \E value \in Values, num_values \in Nums :
          /\ Room
          /\ Commit("op_unpack_env", op_unpack_env(Self, value, num_values))

OpBindClosure ==
    /\ ~panicked /\ Room
    /\ \E env \in Values : Commit("op_bind_closure", op_bind_closure(Self, env))

OpMakeTuple ==
    /\ ~panicked /\ Room
    /\ \E values \in Slices : Commit("op_make_tuple", op_make_tuple(Self, values))

OpMakeList ==
    /\ ~panicked /\ Room
    /\ \E head \in Slices, tail \in Values :
          Commit("op_make_list", op_make_list(Self, head, tail))

OpMakeNoValue ==
    /\ ~panicked /\ Room
    /\ Commit("op_make_no_value", op_make_no_value(Self))

OpMakeClosureEnv ==
    /\ ~panicked /\ Room
    /\ \E values \in Slices :
          Commit("op_make_closure_env", op_make_closure_env(Self, values))

OpCaseStart ==
    /\ ~panicked /\ Room
    /\ \E value \in Values, value_vars \in Slices, body \in Ebbs :
          Commit("op_case_start", op_case_start(Self, value, value_vars, body))

OpCaseBody ==
    /\ ~panicked /\ Room
    /\ \E case_val \in Values, num_clauses \in Nums :
          Commit("op_case_body", op_case_body(Self, case_val, num_clauses))

OpCaseValues ==
    /\ ~panicked
    /\ \E case_val \in Values, num_results \in Nums :
          /\ Room
          /\ Commit("op_case_values",
                    op_case_values(Self, case_val, num_results))

OpCaseGuardOk ==
    /\ ~panicked /\ Room
    /\ \E case_val \in Values :
          Commit("op_case_guard_ok", op_case_guard_ok(Self, case_val))

OpCaseGuardFail ==
    /\ ~panicked /\ Room
    /\ \E case_val \in Values, clause_num \in Nums :
          Commit("op_case_guard_fail",
                 op_case_guard_fail(Self, case_val, clause_num))

OpBranchNotTruthy ==
    /\ ~panicked /\ Room
    /\ \E value \in Values, call \in EbbCalls :
          Commit("op_branch_not_truthy", op_branch_not_truthy(Self, value, call))

\* The constructors whose body is unimplemented!(): op_make_map, op_make_binary,
\* op_receive_start, op_receive_wait, op_receive_get_message, op_unreachable
\* and op_exc_trace.  Each panics whatever it is passed.
OpUnimplemented ==
    /\ ~panicked
    /\ \E r \in {op_make_map(Self), op_make_binary(Self),
                 op_receive_start(Self), op_receive_wait(Self),
                 op_receive_get_message(Self), op_unreachable(Self),
                 op_exc_trace(Self)} : Commit("unimplemented", r)

Next ==
    \/ NewVariable \/ GenVariables \/ Validate
    \/ InsertEbbEntry \/ InsertEbb \/ FinishEbb \/ AddEbbArgument
    \/ PositionAtEnd \/ PositionStore \/ PositionLoad \/ Deposition
    \/ CreateEbbCall \/ AddOpEbbCall \/ CreateAtomic \/ CreateConstant
    \/ OpMove \/ OpJump \/ OpCall \/ OpApply \/ OpCaptureNamedFunction
    \/ OpUnpackValueList \/ OpPackValueList \/ OpReturnThrow \/ OpReturnOk
    \/ OpUnpackEnv \/ OpBindClosure \/ OpMakeTuple \/ OpMakeList
    \/ OpMakeNoValue \/ OpMakeClosureEnv
    \/ OpCaseStart \/ OpCaseBody \/ OpCaseValues \/ OpCaseGuardOk
    \/ OpCaseGuardFail \/ OpBranchNotTruthy \/ OpUnimplemented

Spec == Init /\ [][Next]_vars

\* ---- the reader and the parser around the preprocessor ------------------------
\* What the loop of next_token did on its last turn (unit read, what it
\* returned, errors reported, warning printed, include injected), what the
\* error sink has received so far, and the
\* conditional structure of the input read so far, as the source language
\* defines it: after_dot holds at the start of the stream and right after a
\* `.` token; wellformed holds while every directive of the input stood at
\* such a place; plain holds while the input held no macro call and no
\* directive at such a place, only tokens; chain (kept when the conditionals
\* of the input are followed, while wellformed holds, and empty otherwise)
\* has one entry per conditional that is open, with
\* `active` telling whether the part being read is the one the conditional
\* selects, `taken` whether a part of it has been selected, else_seen whether
\* its -else has been read, and kind "ifdef" while it is an -ifdef/-ifndef
\* with at most an -else.
ChainEntry(kind, active, taken, else_seen) ==
    [kind |-> kind, active |-> active, taken |-> taken,
     else_seen |-> else_seen]

\* the chain after the directive, read with the macro container `macros`
ChainAfter(chain, directive, macros) ==
    LET d == directive.d
        n == Len(chain)
    IN  IF d \in {"ifdef", "ifndef"}
        THEN LET c == (d = "ifdef")
                        = MacroContainer_defined(macros, directive.arg)
             IN  Append(chain, ChainEntry("ifdef", c, c, FALSE))
        ELSE IF d = "if"
        THEN Append(chain, ChainEntry("if", directive.arg = "true",
                                      directive.arg = "true", FALSE))
        ELSE IF d = "elif" /\ n > 0 /\ ~chain[n].else_seen
        THEN [chain EXCEPT ![n] =
                 ChainEntry("if", ~@.taken /\ directive.arg = "true",
                            @.taken \/ directive.arg = "true", FALSE)]
        ELSE IF d = "else" /\ n > 0 /\ ~chain[n].else_seen
        THEN [chain EXCEPT ![n] = ChainEntry(@.kind, ~@.taken, TRUE, TRUE)]
        ELSE IF d = "endif" /\ n > 0
        THEN SubSeq(chain, 1, n - 1)
        ELSE chain

AllActive(chain) == \A i \in 1..Len(chain) : chain[i].active

\* The inputs: raw tokens, macro calls and directives.
RawTokens == {RawToken(Tok("atom", "a")), RawToken(Dot)}

MacroCalls ==
    {MacroCall("X", FALSE, 0), MacroCall("X", TRUE, 1),
     MacroCall("MACHINE", FALSE, 0)}

Conditions == {"true", "false", "invalid", "parse_error", "macro"}

Directives ==
    {Directive("module", "m"), Directive("define", "X"),
     Directive("undef", "X"), Directive("ifdef", "X"),
     Directive("ifndef", "X"), Directive("else", ""),
     Directive("endif", ""), Directive("error", ""),
     Directive("warning", ""), Directive("file", ""),
     Directive("include", "found"), Directive("include", "missing"),
     Directive("include_lib", "found")}
        \cup {Directive("if", c) : c \in Conditions}
        \cup {Directive("elif", c) : c \in Conditions}

\* the input nests no more than MaxDepth conditionals
Nests(directive) ==
    directive.d \in {"ifdef", "ifndef", "if"}
        => Len(pp.branches) < MaxDepth /\ Len(trace.chain) < MaxDepth

\* what the error sink has received since the start of the stream: "none",
\* "error" (errors, none of them a CompilerError) or "fatal" (a CompilerError)
Reported(before, errs) ==
    IF before = "fatal" \/ (\E i \in 1..Len(errs) : errs[i] = "CompilerError")
    THEN "fatal"
    ELSE IF before = "error" \/ errs # <<>> THEN "error"
    ELSE "none"

\* the text of a unit that the reader hands over token by token
TextOf(unit) ==
    IF unit.u = "token" THEN unit.tok
    ELSE IF unit.u = "directive" THEN Tok("directive_text", unit.d)
    ELSE Tok("call_text", unit.name)

\* One turn of the loop of next_token has read `unit` and left the
\* preprocessor as r.pp; ret tells how the turn ended: "token" (the call
\* returned Ok(Some(token))), "err" (it returned Err(())), "none" (it returned
\* Ok(None)), "continue" (the loop goes round again) or "never" (a call made
\* in the turn does not return, and nothing follows).
Turn(unit, r, ret, token) ==
    /\ trace.ret # "never"
    /\ pp' = r.pp
    /\ trace' =
          [unit |-> unit, ret |-> IF r.returns THEN ret ELSE "never",
           token |-> token, errs |-> r.errs,
           warned |-> r.warned, injected |-> r.injected,
           reported |-> Reported(trace.reported, r.errs),
           followed |-> trace.followed,
           chain |-> IF unit.u # "directive" THEN trace.chain
                     ELSE IF /\ trace.followed
                             /\ trace.wellformed /\ trace.after_dot
                     THEN ChainAfter(trace.chain, unit, pp.macros)
                     ELSE <<>>,
           after_dot |-> IF unit.u = "none" THEN trace.after_dot
                         ELSE IF unit.u = "token" THEN unit.tok = Dot
                         ELSE unit.u = "directive",
           wellformed |-> trace.wellformed
                            /\ (unit.u = "directive" => trace.after_dot),
           plain |-> /\ trace.plain
                     /\ unit.u # "call"
                     /\ unit.u = "directive" => ~trace.after_dot]
    /\ UNCHANGED <<fun, current_ebb, current_op, state, panicked, inserted,
                   calc>>

\* the configuration flags are the caller's choice
PInit ==
    /\ fun = Function_new
    /\ current_ebb = FunctionBuilder_new(Function_new).current_ebb
    /\ current_op = FunctionBuilder_new(Function_new).current_op
    /\ state = FunctionBuilder_new(Function_new).state
    /\ panicked = FALSE
    /\ inserted = [ebbs |-> <<>>, ops |-> <<>>]
    /\ \E warnings_as_errors \in BOOLEAN, no_warn \in BOOLEAN :
          pp = Preprocessor_new(warnings_as_errors, no_warn)
    /\ trace = Trace_new
    /\ calc = Calc_new

\* next_token: a token of the last expansion is pending and is returned.
ReturnExpanded ==
    /\ pp.expanded_tokens # <<>>
    /\ Turn(NoUnit, POk([pp EXCEPT !.expanded_tokens = Tail(@)], <<>>),
            "token", Head(pp.expanded_tokens))

\* next_token: can_directive_start holds and the reader parses a directive.
ReadDirective ==
    /\ pp.expanded_tokens = <<>> /\ ~pp.eof
    /\ pp.can_directive_start
    /\ \E directive \in Directives :
          /\ Nests(directive)
          /\ LET r == try_read_directive(pp, directive)
             IN  IF ~r.ok THEN Turn(directive, r, "err", NoTok)
                 ELSE IF directive.d = "module"
                 THEN Turn(directive,
                           [r EXCEPT !.pp.expanded_tokens =
                                         Module_expand(directive)],
                           "continue", NoTok)
                 ELSE Turn(directive, r, "continue", NoTok)

\* next_token: the preprocessor is not ignoring and the reader recognizes a
\* macro call.
ReadMacroCall ==
    /\ pp.expanded_tokens = <<>> /\ ~pp.eof
    /\ ~ignore(pp)
    /\ \E call \in MacroCalls :
          LET r == expand_macro(pp, call)
          IN  IF ~r.ok THEN Turn(call, r, "err", NoTok)
              ELSE Turn(call, [r EXCEPT !.pp.expanded_tokens = r.value],
                        "continue", NoTok)

\* Variant: the test of ignore() is inverted.
ReadToken_inverted ==
    /\ pp.expanded_tokens = <<>> /\ ~pp.eof
    /\ \E unit \in RawTokens
                    \cup {d \in Directives : ~pp.can_directive_start}
                    \cup {c \in MacroCalls : ignore(pp)} :
          IF ~ignore(pp) THEN Turn(unit, POk(pp, <<>>), "continue", NoTok)
          ELSE Turn(unit,
                    POk([pp EXCEPT !.can_directive_start =
                            IF unit.u = "token" THEN unit.tok = Dot
                            ELSE unit.u = "directive"], <<>>),
                    "token", TextOf(unit))

\* next_token: the reader hands over raw tokens: those of a token unit, of a
\* directive that stands where no directive can start, or of a macro call
\* met while ignoring.  While ignoring they are discarded; otherwise they are
\* returned and can_directive_start tells whether the last one is a `.`.
ReadToken ==
    /\ pp.expanded_tokens = <<>> /\ ~pp.eof
    /\ \E unit \in RawTokens
                    \cup {d \in Directives : ~pp.can_directive_start}
                    \cup {c \in MacroCalls : ignore(pp)} :
          IF ignore(pp) THEN Turn(unit, POk(pp, <<>>), "continue", NoTok)
          ELSE Turn(unit,
                    POk([pp EXCEPT !.can_directive_start =
                            IF unit.u = "token" THEN unit.tok = Dot
                            ELSE unit.u = "directive"], <<>>),
                    "token", TextOf(unit))

\* next_token: the reader has nothing left; the call returns Ok(None).
EndOfInput ==
    /\ pp.expanded_tokens = <<>>
    /\ Turn(NoUnit, POk([pp EXCEPT !.eof = TRUE], <<>>), "none", NoTok)

PNext ==
    \/ ReturnExpanded \/ ReadDirective \/ ReadMacroCall \/ ReadToken
    \/ EndOfInput

PSpec == PInit /\ [][PNext]_vars

\* The same preprocessor, with the conditionals of the input followed in
\* trace.chain.
CInit ==
    /\ fun = Function_new
    /\ current_ebb = FunctionBuilder_new(Function_new).current_ebb
    /\ current_op = FunctionBuilder_new(Function_new).current_op
    /\ state = FunctionBuilder_new(Function_new).state
    /\ panicked = FALSE
    /\ inserted = [ebbs |-> <<>>, ops |-> <<>>]
    /\ \E warnings_as_errors \in BOOLEAN, no_warn \in BOOLEAN :
          pp = Preprocessor_new(warnings_as_errors, no_warn)
    /\ trace = [Trace_new EXCEPT !.followed = TRUE]
    /\ calc = Calc_new

CSpec == CInit /\ [][PNext]_vars

\* ---- macro calls against a seeded container ----------------------------------
\* Preprocessor::new starts from the container of the configuration
\* (parser.config.macros) when there is one: any mapping of identities to
\* definitions, here over the identities X and X/1.  Its Static definitions
\* are those that -define inserts: with or without variables, with a
\* replacement of plain tokens, of a call of a predefined macro, or of a
\* call of X (-define(X, ?X).).  The input then holds macro calls and
\* tokens, no directives.
MInit ==
    /\ fun = Function_new
    /\ current_ebb = FunctionBuilder_new(Function_new).current_ebb
    /\ current_op = FunctionBuilder_new(Function_new).current_op
    /\ state = FunctionBuilder_new(Function_new).state
    /\ panicked = FALSE
    /\ inserted = [ebbs |-> <<>>, ops |-> <<>>]
    /\ \E warnings_as_errors \in BOOLEAN, no_warn \in BOOLEAN,
          keys \in SUBSET {MacroIdent_Const("X"), MacroIdent_Func("X", 1)} :
          \E seed \in [keys ->
                        {MacroDef("Static", FALSE, 0, <<Tok("integer", "1")>>),
                         MacroDef("String", FALSE, 0, <<Tok("string", "s")>>),
                         MacroDef("BooleanTrue", FALSE, 0, <<>>),
                         MacroDef("BooleanFalse", FALSE, 0, <<>>),
                         MacroDef("Dynamic", FALSE, 0, <<Tok("atom", "d")>>)}
                        \cup {MacroDef("Static", TRUE, n,
                                       <<Tok("integer", "1")>>) :
                                 n \in 0..2}
                        \cup {MacroDef("Static", FALSE, 0,
                                       <<Tok("macro_call", "MACHINE"),
                                         Tok("integer", "1")>>),
                              MacroDef("Static", FALSE, 0,
                                       <<Tok("macro_call", "X")>>),
                              MacroDef("Static", TRUE, 1,
                                       <<Tok("macro_call", "X")>>)}] :
              pp = [Preprocessor_new(warnings_as_errors, no_warn) EXCEPT
                      !.macros =
                          [k \in DOMAIN @ \cup keys |->
                              IF k \in DOMAIN @ THEN @[k] ELSE seed[k]]]
    /\ trace = Trace_new
    /\ calc = Calc_new

MNext == ReturnExpanded \/ ReadMacroCall \/ ReadToken \/ EndOfInput

MSpec == MInit /\ [][MNext]_vars

\* ---- the arithmetic of Integer, applied to operands of a caller -----------
\* the operands: every Small, and Big values on both sides of the i64 range,
\* those a Small could hold included (Integer::Big is a public variant)
Integers_ == {Small(v) : v \in I64} \cup {Big(v) : v \in (0 - 2^W) .. 2^W}

IInit ==
    /\ fun = Function_new
    /\ current_ebb = FunctionBuilder_new(Function_new).current_ebb
    /\ current_op = FunctionBuilder_new(Function_new).current_op
    /\ state = FunctionBuilder_new(Function_new).state
    /\ panicked = FALSE
    /\ inserted = [ebbs |-> <<>>, ops |-> <<>>]
    /\ pp = Preprocessor_new(FALSE, FALSE)
    /\ trace = Trace_new
    /\ calc = Calc_new

\* one operation is applied to the operands of a caller and its result kept
Calc(op, lhs, rhs, result) ==
    /\ calc.op = "none"
    /\ calc' = [op |-> op, lhs |-> lhs, rhs |-> rhs, result |-> result]
    /\ UNCHANGED <<fun, current_ebb, current_op, state, panicked, inserted,
                   pp, trace>>

Mul == \E a \in Integers_, b \in Integers_ : Calc("mul", a, b, Integer_mul(a, b))

Div == \E a \in Integers_, b \in Integers_ : Calc("div", a, b, Integer_div(a, b))

Add == \E a \in Integers_, b \in Integers_ : Calc("add", a, b, Integer_add(a, b))

Sub == \E a \in Integers_, b \in Integers_ : Calc("sub", a, b, Integer_sub(a, b))

Rem == \E a \in Integers_, b \in Integers_ : Calc("rem", a, b, Integer_rem(a, b))

MulI64 ==
    \E a \in Integers_, k \in I64 :
        Calc("mul_i64", a, Small(k), Integer_mul_i64(a, k))

Neg ==
    \E a \in Integers_, overflow_checks \in BOOLEAN :
        Calc("neg", a, Small(0), Integer_neg(a, overflow_checks))

INext == Mul \/ Div \/ Add \/ Sub \/ Rem \/ MulI64 \/ Neg

ISpec == IInit /\ [][INext]_vars

\* ---- vocabulary of the properties ------------------------------------------
Ops == 1..Len(fun.ops)

Reverse(seq) == [i \in 1..Len(seq) |-> seq[Len(seq) + 1 - i]]

Range(seq) == {seq[i] : i \in 1..Len(seq)}

\* the blocks met walking prev from last_ebb
BackwardEbbs(f) ==
    Walk([e \in DOMAIN f.layout.ebbs |-> f.layout.ebbs[e].prev],
         f.layout.last_ebb, Len(f.layout.ebbs) + 1)

\* the ops of ebb met walking prev from its last_op
BackwardOps(f, ebb) ==
    Walk([o \in DOMAIN f.layout.ops |-> f.layout.ops[o].prev],
         f.layout.ebbs[ebb].last_op, Len(f.layout.ops) + 1)

\* The number of block-calls the kind of an op requires.
RequiredEdges(kind) ==
    IF kind.tag \in {"Jump", "Call", "Apply", "CaseStart", "IfTruthy"} THEN 1
    ELSE IF kind.tag = "Case" THEN kind.n + 1
    ELSE 0

\* how many times x occurs in seq
Count(seq, x) == Cardinality({i \in 1..Len(seq) : seq[i] = x})

RECURSIVE SumOver(_, _, _)
SumOver(seqs, x, i) ==
    IF i = 0 THEN 0 ELSE Count(seqs[i], x) + SumOver(seqs, x, i - 1)

\* The number of definition sites of value v in function f: its occurrences
\* in the writes of the ops and in the parameters of the blocks.
DefSites(f, v) ==
    SumOver([i \in 1..Len(f.ops) |-> f.ops[i].writes], v, Len(f.ops))
        + SumOver([i \in 1..Len(f.ebbs) |-> f.ebbs[i].arguments], v,
                  Len(f.ebbs))

Variables(f) == {v \in 1..Len(f.values) : f.values[v] = "Variable"}

\* What every op constructor returns in the current state, over all the
\* arguments the caller can pass.
BranchingResults ==
    {op_call(Self, m, n, a) : m \in Values, n \in Values, a \in Slices}
        \cup {op_apply(Self, f, a) : f \in Values, a \in Slices}
        \cup {op_case_body(Self, v, n) : v \in Values, n \in Nums}
        \cup {op_branch_not_truthy(Self, v, c) : v \in Values, c \in EbbCalls}
        \cup {op_case_start(Self, v, a, b) :
                 v \in Values, a \in Slices, b \in Ebbs}

OpConstructorResults ==
    BranchingResults
        \cup {op_move(Self, v) : v \in Values}
        \cup {op_jump(Self, c) : c \in EbbCalls}
        \cup {op_capture_named_function(Self)}
        \cup {op_unpack_value_list(Self, v, n) : v \in Values, n \in Nums}
        \cup {op_pack_value_list(Self, a) : a \in Slices}
        \cup {op_return_throw(Self, v) : v \in Values}
        \cup {op_return_ok(Self, v) : v \in Values}
        \cup {op_unpack_env(Self, v, n) : v \in Values, n \in Nums}
        \cup {op_bind_closure(Self, v) : v \in Values}
        \cup {op_make_tuple(Self, a) : a \in Slices}
        \cup {op_make_list(Self, a, v) : a \in Slices, v \in Values}
        \cup {op_make_map(Self), op_make_binary(Self)}
        \cup {op_make_no_value(Self)}
        \cup {op_make_closure_env(Self, a) : a \in Slices}
        \cup {op_case_values(Self, v, n) : v \in Values, n \in Nums}
        \cup {op_case_guard_ok(Self, v) : v \in Values}
        \cup {op_case_guard_fail(Self, v, n) : v \in Values, n \in Nums}
        \cup {op_receive_start(Self), op_receive_wait(Self),
              op_receive_get_message(Self), op_unreachable(Self),
              op_exc_trace(Self)}

\* the op a successful constructor call r appended
Appended(r) == r.fun.ops[r.current_op]

\* ---- C1 ---------------------------------------------------------------------
\* C1 (layout integrity): walking the blocks forward from first_ebb, and each
\* block's ops forward from first_op, yields exactly the blocks and ops that
\* were inserted, each once, in the order the insertions placed them; walking
\* backward from last_ebb and from each last_op yields the reverse sequences.
C1_LayoutIntegrity ==
    ~panicked =>
        /\ iter_ebb(fun) = inserted.ebbs
        /\ Range(iter_ebb(fun)) = Ebbs
        /\ Len(iter_ebb(fun)) = Len(fun.ebbs)
        /\ BackwardEbbs(fun) = Reverse(iter_ebb(fun))
        /\ \A ebb \in Ebbs :
              /\ iter_op(fun, ebb) = inserted.ops[ebb]
              /\ BackwardOps(fun, ebb) = Reverse(iter_op(fun, ebb))
        /\ \A op \in Ops :
              Cardinality({ebb \in Ebbs : op \in Range(iter_op(fun, ebb))}) = 1

\* ---- C2 ---------------------------------------------------------------------
\* C2 (no op follows a terminator): in every block an op of a terminator kind
\* is the last op of the chain, and every op constructor called with the
\* cursor on a terminator op fails.
C2_NoOpAfterTerminator ==
    ~panicked =>
        /\ \A ebb \in Ebbs :
              \A i \in 1..Len(iter_op(fun, ebb)) :
                  is_block_terminator(fun.ops[iter_op(fun, ebb)[i]].kind)
                      => i = Len(iter_op(fun, ebb))
        /\ (current_op # None
                /\ is_block_terminator(fun.ops[current_op].kind))
              => \A r \in OpConstructorResults : r.panic

\* ---- C3 ---------------------------------------------------------------------
\* C3 (outstanding-edge protocol): op_call and op_apply leave the builder in
\* OutstandingEbbCalls(1), op_case_body(n) in OutstandingEbbCalls(n + 1);
\* while edges are outstanding every op constructor, position_at_end,
\* position_store and position_load fails; every add_op_ebb_call appends its
\* call to the edges of the branching op and lowers the counter by one, and
\* the builder is back in Build exactly when the counter reaches zero, the op
\* then having the edges its kind requires.
C3_OutstandingProtocol ==
    ~panicked =>
        /\ \A r \in {op_call(Self, m, n, a) :
                        m \in Values, n \in Values, a \in Slices}
                    \cup {op_apply(Self, f, a) : f \in Values, a \in Slices} :
              ~r.panic => r.state = OutstandingEbbCalls(1)
        /\ \A v \in Values, n \in Nums :
              ~op_case_body(Self, v, n).panic
                  => op_case_body(Self, v, n).state = OutstandingEbbCalls(n + 1)
        /\ state.tag = "OutstandingEbbCalls" =>
              /\ \A r \in OpConstructorResults : r.panic
              /\ \A ebb \in Ebbs : position_at_end(Self, ebb).panic
              /\ position_store(Self).panic
              /\ \A pos \in Positions : position_load(Self, pos).panic
              /\ \A call \in EbbCalls :
                    LET r == add_op_ebb_call(Self, call)
                    IN  /\ ~r.panic
                        /\ current_op # None
                        /\ r.fun.ops[current_op].ebb_calls
                              = Append(fun.ops[current_op].ebb_calls, call)
                        /\ r.state = IF state.n = 1 THEN Build
                                     ELSE OutstandingEbbCalls(state.n - 1)
                        /\ r.state = Build
                              => Len(r.fun.ops[current_op].ebb_calls)
                                   = RequiredEdges(fun.ops[current_op].kind)

\* ---- C4 ---------------------------------------------------------------------
\* C4 as claimed: every branching constructor (op_call, op_apply,
\* op_case_body, op_branch_not_truthy, op_case_start) that appends its op
\* leaves the builder in OutstandingEbbCalls(k), k the number of edges the
\* kind of the op requires.
C4_AllBranchingOutstanding ==
    ~panicked =>
        \A r \in BranchingResults :
            ~r.panic
                => r.state = OutstandingEbbCalls(RequiredEdges(Appended(r).kind))

\* A step that appends a branching op leaves k edges outstanding, k being the
\* edges the kind requires less the edges the constructor attached itself.
C4_Step ==
    (/\ ~panicked'
     /\ Len(fun'.ops) = Len(fun.ops) + 1
     /\ fun'.ops[Len(fun'.ops)].kind.tag
           \in {"Call", "Apply", "Case", "IfTruthy", "CaseStart"})
      => LET op == fun'.ops[Len(fun'.ops)]
             k == RequiredEdges(op.kind) - Len(op.ebb_calls)
         IN  /\ k >= 0
             /\ current_op' = Len(fun'.ops)
             /\ state' = IF k = 0 THEN Build ELSE OutstandingEbbCalls(k)
             /\ op.kind.tag \in {"Call", "Apply", "Case"}
                   => op.ebb_calls = <<>>
             /\ op.kind.tag \in {"IfTruthy", "CaseStart"}
                   => Len(op.ebb_calls) = 1

\* C4 as amended: a branching constructor that appends its op leaves the
\* builder with k edges outstanding, k being the edges the kind requires less
\* the edges the constructor attached itself: OutstandingEbbCalls(1) after
\* op_call and op_apply, OutstandingEbbCalls(n + 1) after op_case_body(n), and
\* Build after op_branch_not_truthy and op_case_start, which attach their one
\* edge themselves.
C4_OutstandingIsMissingEdges == [][C4_Step]_vars

\* op_branch_not_truthy has appended its op with the edge it was given and
\* the builder is in Build.
C4_Witness ==
    /\ ~panicked
    /\ current_op # None
    /\ fun.ops[current_op].kind.tag = "IfTruthy"
    /\ Len(fun.ops[current_op].ebb_calls) = 1
    /\ fun.layout.ops[current_op].next = None
    /\ state = Build

\* ---- C5 ---------------------------------------------------------------------
\* C5 (edge arity): whenever the builder is in Build, every op has as many
\* block-calls as its kind requires: one for Jump, Call, Apply, CaseStart and
\* IfTruthy, n + 1 for Case(n), none for the other kinds.
C5_EdgeArity ==
    state = Build =>
        \A op \in Ops :
            Len(fun.ops[op].ebb_calls) = RequiredEdges(fun.ops[op].kind)

\* A Case op with one clause has received its two edges and the builder is
\* back in Build.
C5_Witness ==
    /\ ~panicked
    /\ state = Build
    /\ \E op \in Ops :
          /\ fun.ops[op].kind.tag = "Case"
          /\ fun.ops[op].kind.n = 1
          /\ Len(fun.ops[op].ebb_calls) = 2

\* ---- C6 ---------------------------------------------------------------------
\* C6 (block-call argument arity): every block-call has as many argument
\* values as its target block has parameters.
C6_CallArgumentArity ==
    ~panicked =>
        \A c \in 1..Len(fun.ebb_calls) :
            Len(fun.ebb_calls[c].values)
                = Len(fun.ebbs[fun.ebb_calls[c].block].arguments)

\* ---- C7 ---------------------------------------------------------------------
\* C7 as claimed: every Variable value has exactly one definition site.
C7_ExactlyOneDefinition ==
    ~panicked => \A v \in Variables(fun) : DefSites(fun, v) = 1

\* The definition sites of a value are fixed by the call that allocates it:
\* a call that appends an op or a block parameter gives every value it
\* allocates exactly one site, and no call changes the sites of an older value.
C7_Step ==
    (fun'.ops # fun.ops \/ fun'.ebbs # fun.ebbs) =>
        /\ \A v \in 1..Len(fun.values) : DefSites(fun', v) = DefSites(fun, v)
        /\ (/\ ~panicked'
            /\ \/ Len(fun'.ops) > Len(fun.ops)
               \/ \E e \in Ebbs :
                     Len(fun'.ebbs[e].arguments) > Len(fun.ebbs[e].arguments))
              => \A v \in (Len(fun.values) + 1)..Len(fun'.values) :
                    /\ fun'.values[v] = "Variable"
                    /\ DefSites(fun', v) = 1

\* C7 as amended: no Variable value ever has two definition sites; a variable
\* allocated by an op constructor that appends its op, or by
\* add_ebb_argument, has exactly one from then on; a variable allocated
\* through new_variable or gen_variables alone has none.
C7_AtMostOneDefinition ==
    /\ [](\A v \in 1..Len(fun.values) :
             /\ DefSites(fun, v) <= 1
             /\ fun.values[v] = "Constant" => DefSites(fun, v) = 0)
    /\ [][C7_Step]_vars

\* A loose variable, a block parameter and an op result exist together.
C7_Witness ==
    /\ ~panicked
    /\ \E v \in Variables(fun) : DefSites(fun, v) = 0
    /\ \E e \in Ebbs : fun.ebbs[e].arguments # <<>>
    /\ \E op \in Ops : fun.ops[op].writes # <<>>

\* ---- C8 ---------------------------------------------------------------------
\* C8 (terminator closure): a block finish_ebb was called on has a last op
\* and that op is of a terminator kind.
C8_TerminatorClosure ==
    ~panicked =>
        \A ebb \in Ebbs :
            fun.ebbs[ebb].finished =>
                /\ fun.layout.ebbs[ebb].last_op # None
                /\ is_block_terminator(
                       fun.ops[fun.layout.ebbs[ebb].last_op].kind)

\* ---- C9 ---------------------------------------------------------------------
\* C9: finish_ebb(b) succeeds on any block and changes nothing but b's
\* finished flag, and Function::validate rejects a function that has a
\* finished block whose last op is not a terminator.
C9_ValidateRejects ==
    ~panicked =>
        /\ \A ebb \in Ebbs :
              LET r == finish_ebb(Self, ebb)
              IN  /\ ~r.panic
                  /\ r.fun.ebbs[ebb].finished
                  /\ [r EXCEPT !.fun.ebbs[ebb].finished =
                                   fun.ebbs[ebb].finished] = Self
        /\ (\E ebb \in Ebbs :
               /\ fun.ebbs[ebb].finished
               /\ fun.layout.ebbs[ebb].last_op # None
               /\ ~is_block_terminator(
                      fun.ops[fun.layout.ebbs[ebb].last_op].kind))
              => ~validate(fun)

\* ---- C10 --------------------------------------------------------------------
\* C10 (doubly-linked consistency): every block has a first op iff it has a
\* last op; along each block's chain next and prev mirror each other, the
\* first op has no prev, the last op no next, and every op of the chain names
\* the block; along the block list next and prev mirror each other, first_ebb
\* has no prev, and last_ebb has no next and is the block the walk from
\* first_ebb ends at.
C10_DoublyLinked ==
    ~panicked =>
        /\ \A b \in Ebbs :
              LET node == fun.layout.ebbs[b]
                  chain == iter_op(fun, b)
              IN  /\ (node.first_op = None) <=> (node.last_op = None)
                  /\ node.first_op # None
                        => fun.layout.ops[node.first_op].prev = None
                  /\ node.last_op # None
                        => /\ fun.layout.ops[node.last_op].next = None
                           /\ node.last_op = chain[Len(chain)]
                  /\ \A i \in 1..Len(chain) :
                        /\ fun.layout.ops[chain[i]].ebb = b
                        /\ i < Len(chain)
                              => fun.layout.ops[chain[i + 1]].prev = chain[i]
        /\ \A a \in Ebbs :
              fun.layout.ebbs[a].next # None
                  => fun.layout.ebbs[fun.layout.ebbs[a].next].prev = a
        /\ (fun.layout.first_ebb = None) <=> (fun.layout.last_ebb = None)
        /\ fun.layout.first_ebb # None
              => /\ fun.layout.ebbs[fun.layout.first_ebb].prev = None
                 /\ fun.layout.ebbs[fun.layout.last_ebb].next = None
                 /\ fun.layout.last_ebb
                       = iter_ebb(fun)[Len(iter_ebb(fun))]

\* ---- C11 --------------------------------------------------------------------
\* C11: add_op_ebb_call called while the builder is in Build fails, and no
\* add_op_ebb_call that returns leaves an op with more edges than its kind
\* requires.
C11_AddEdgeInBuildFails ==
    ~panicked =>
        \A call \in EbbCalls :
            LET r == add_op_ebb_call(Self, call)
            IN  /\ state = Build => r.panic
                /\ ~r.panic =>
                      \A op \in Ops :
                          Len(r.fun.ops[op].ebb_calls)
                              <= RequiredEdges(r.fun.ops[op].kind)

\* ---- C12 --------------------------------------------------------------------
\* C12: finish_ebb called on a block that is already finished fails.
C12_FinishTwiceFails ==
    ~panicked =>
        \A ebb \in Ebbs :
            fun.ebbs[ebb].finished => finish_ebb(Self, ebb).panic

\* ---- C13 --------------------------------------------------------------------
\* the layout with the default node of a block not yet in the secondary map
LayoutWith(l, ebb) ==
    IF ebb <= Len(l.ebbs) THEN l
    ELSE [l EXCEPT !.ebbs = Append(@, EbbNodeDefault)]

\* C13: Layout::insert_ebb_after(prev, b) with b not linked places b right
\* after prev in the forward block order, and with b already linked into the
\* layout it fails.
C13_InsertEbbAfterRejectsLinked ==
    ~panicked =>
        \A prev \in Range(iter_ebb(fun)) :
            /\ LET b == Len(fun.ebbs) + 1
                   r == insert_ebb_after(LayoutWith(fun.layout, b), prev, b)
               IN  /\ ~r.panic
                   /\ iter_ebb([fun EXCEPT !.layout = r.layout,
                                           !.ebbs = Append(@, EbbData(<<>>, FALSE))])
                         = InsertAfter(iter_ebb(fun), prev, b)
            /\ \A b \in Range(iter_ebb(fun)) :
                  insert_ebb_after(fun.layout, prev, b).panic

\* ---- C14 --------------------------------------------------------------------
\* The number of times block-call c occurs in the edges of the ops of f.
CallRefs(f, c) ==
    SumOver([i \in 1..Len(f.ops) |-> f.ops[i].ebb_calls], c, Len(f.ops))

\* C14: whenever the builder is in Build, every block-call created occurs in
\* the edges of exactly one op, exactly once.
C14_CallReferencedOnce ==
    (~panicked /\ state = Build) =>
        \A c \in EbbCalls : CallRefs(fun, c) = 1

\* ---- C15 --------------------------------------------------------------------
\* value v of f is a constant, or a variable some op writes or some block
\* has as a parameter
Defined(f, v) == f.values[v] = "Constant" \/ DefSites(f, v) >= 1

\* A call that returns having appended ops or created block-calls gave them
\* only values that were defined when the call was made.
C15_Step ==
    ~panicked' =>
        /\ \A op \in (Len(fun.ops) + 1)..Len(fun'.ops) :
              \A i \in 1..Len(fun'.ops[op].reads) :
                  Defined(fun, fun'.ops[op].reads[i])
        /\ \A c \in (Len(fun.ebb_calls) + 1)..Len(fun'.ebb_calls) :
              \A i \in 1..Len(fun'.ebb_calls[c].values) :
                  Defined(fun, fun'.ebb_calls[c].values[i])

\* C15 (definition before use): when an op is appended or a block-call is
\* created, every value among its reads or arguments is a constant or a
\* variable that already has a definition site.
C15_DefinitionBeforeUse == [][C15_Step]_vars

\* ---- C16 --------------------------------------------------------------------
\* Every op constructor the caller can call fails when the cursor is in a
\* finished block, add_ebb_argument fails on a finished block, and on an open
\* block it appends one fresh Variable as the last parameter and changes no
\* other block.
C16_Sealed ==
    ~panicked =>
        \A b \in Ebbs :
            LET r == add_ebb_argument(Self, b)
            IN  IF fun.ebbs[b].finished
                THEN /\ r.panic
                     /\ (Room /\ current_ebb = b)
                           => \A c \in OpConstructorResults : c.panic
                ELSE /\ ~r.panic
                     /\ r.fun.values = Append(fun.values, "Variable")
                     /\ r.fun.ebbs[b].arguments
                           = Append(fun.ebbs[b].arguments, Len(fun.values) + 1)
                     /\ ~r.fun.ebbs[b].finished
                     /\ \A o \in Ebbs \ {b} : r.fun.ebbs[o] = fun.ebbs[o]

\* No call changes the parameters or the op chain of a finished block, or
\* opens it again.
C16_Step ==
    fun' # fun =>
        \A b \in Ebbs :
            fun.ebbs[b].finished
                => /\ fun'.ebbs[b] = fun.ebbs[b]
                   /\ iter_op(fun', b) = iter_op(fun, b)

\* C16 (a finished block is sealed): after finish_ebb(b) every op constructor
\* with the cursor in b and every add_ebb_argument(b) fails, and the op list
\* and the parameter list of b never change again; while b is open,
\* add_ebb_argument(b) allocates a fresh Variable and appends it as the last
\* parameter of b, leaving the earlier parameters and the other blocks alone.
C16_FinishedBlockSealed == []C16_Sealed /\ [][C16_Step]_vars

\* The cursor is in a finished block that has a parameter, the builder is in
\* Build and the caller can still call an op constructor on a value.
C16_Witness ==
    /\ ~panicked /\ Room /\ state = Build
    /\ current_ebb # None
    /\ fun.ebbs[current_ebb].finished
    /\ fun.ebbs[current_ebb].arguments # <<>>

\* ---- C17 --------------------------------------------------------------------
\* position_at_end(b) returns only in Build and only when b is empty or its
\* last op is no terminator, and then the cursor is (b, last op of b) and
\* nothing else has changed.
C17_AtEnd ==
    ~panicked =>
        \A b \in Ebbs :
            LET r == position_at_end(Self, b)
                last_op == fun.layout.ebbs[b].last_op
            IN  ~r.panic =>
                    /\ state = Build
                    /\ last_op = None
                          \/ ~is_block_terminator(fun.ops[last_op].kind)
                    /\ r.current_ebb = b
                    /\ r.current_op = last_op
                    /\ r.fun = fun /\ r.state = state

\* An op appended with the cursor at the end of a block is the new last op
\* of the block, after the ops the block had.
C17_Step ==
    (/\ ~panicked'
     /\ Len(fun'.ops) = Len(fun.ops) + 1
     /\ current_ebb # None
     /\ current_op = fun.layout.ebbs[current_ebb].last_op)
      => /\ fun'.layout.ebbs[current_ebb].last_op = Len(fun'.ops)
         /\ iter_op(fun', current_ebb)
               = Append(iter_op(fun, current_ebb), Len(fun'.ops))
         /\ current_op' = Len(fun'.ops)

\* C17: position_at_end(b) succeeds only if the builder is in Build and b is
\* empty or its last op is no block terminator; on success the cursor is
\* (b, last op of b), so that the next op appended becomes the new last op
\* of b.
C17_PositionAtEnd == []C17_AtEnd /\ [][C17_Step]_vars

\* A block holds two ops, the cursor is on the second, which is a
\* terminator, and position_at_end fails on the block.
C17_Witness ==
    /\ ~panicked /\ state = Build
    /\ \E b \in Ebbs :
          /\ Len(iter_op(fun, b)) = 2
          /\ current_ebb = b
          /\ current_op = fun.layout.ebbs[b].last_op
          /\ is_block_terminator(fun.ops[current_op].kind)
          /\ position_at_end(Self, b).panic

\* ---- C18 --------------------------------------------------------------------
\* C18: insert_ebb_entry called on an empty layout creates an open block
\* without parameters or ops that is both the head and the tail of the block
\* list; called when the layout holds a block it fails.
C18_EntryOnlyOnEmpty ==
    ~panicked =>
        LET r == insert_ebb_entry(Self)
            b == Len(fun.ebbs) + 1
        IN  IF iter_ebb(fun) = <<>>
            THEN /\ ~r.panic
                 /\ r.fun.ebbs = Append(fun.ebbs, EbbData(<<>>, FALSE))
                 /\ r.fun.layout.first_ebb = b
                 /\ r.fun.layout.last_ebb = b
                 /\ iter_ebb(r.fun) = <<b>>
                 /\ BackwardEbbs(r.fun) = <<b>>
                 /\ iter_op(r.fun, b) = <<>>
            ELSE r.panic

\* The entry block is in the layout, with a second block after it, and
\* insert_ebb_entry fails.
C18_Witness ==
    /\ ~panicked
    /\ Len(iter_ebb(fun)) = 2
    /\ iter_ebb(fun)[1] = 1
    /\ insert_ebb_entry(Self).panic

\* ---- C19 --------------------------------------------------------------------
\* Constructor call r returned having appended exactly one op, of kind `tag`,
\* with the given reads, `nw` fresh distinct Variable values as writes and no
\* edges, into the current block and creating no block.
Records(r, tag, reads, nw) ==
    ~r.panic =>
        LET op == Appended(r)
        IN  /\ Len(r.fun.ops) = Len(fun.ops) + 1
            /\ r.current_op = Len(r.fun.ops)
            /\ op.kind.tag = tag
            /\ op.reads = reads
            /\ op.writes = [i \in 1..nw |-> Len(fun.values) + i]
            /\ r.fun.values = fun.values \o [i \in 1..nw |-> "Variable"]
            /\ op.ebb_calls = <<>>
            /\ r.fun.ebbs = fun.ebbs
            /\ Len(iter_ebb(r.fun)) = Len(iter_ebb(fun))
            /\ Len(iter_op(r.fun, current_ebb))
                  = Len(iter_op(fun, current_ebb)) + 1

\* C19: op_return_ok(v) appends an op with reads [v], no writes and no
\* edges; op_move(v) one with reads [v], one fresh write and no edges;
\* op_call(m, n, args) one with reads [m, n, ...args] and writes [ok, err],
\* two distinct fresh variables; op_apply(f, args) one with reads
\* [f, ...args] and writes [ok, err].  Stated of every call the caller can
\* make.
C19_RecordedOperands ==
    (~panicked /\ Room) =>
        /\ \A v \in Values :
              /\ Records(op_return_ok(Self, v), "ReturnOk", <<v>>, 0)
              /\ Records(op_move(Self, v), "Move", <<v>>, 1)
        /\ \A m \in Values, n \in Values, args \in Slices :
              Records(op_call(Self, m, n, args), "Call",
                      <<m, n>> \o args, 2)
        /\ \A f \in Values, args \in Slices :
              Records(op_apply(Self, f, args), "Apply", <<f>> \o args, 2)

\* op_apply has appended its op with a function value and one argument.
C19_Witness ==
    /\ ~panicked
    /\ current_op # None
    /\ fun.ops[current_op].kind.tag = "Apply"
    /\ Len(fun.ops[current_op].reads) = 2
    /\ Len(fun.ops[current_op].writes) = 2
    /\ Len(iter_ebb(fun)) = 1 /\ Len(fun.ops) = 1

\* ---- C20 ---------------------------------------------------------------------
\* the input read so far is well formed and every conditional that is open is
\* an -ifdef/-ifndef with at most an -else
C20_InConditional ==
    /\ trace.followed
    /\ trace.wellformed
    /\ trace.chain # <<>>
    /\ \A i \in 1..Len(trace.chain) : trace.chain[i].kind = "ifdef"

\* C20: conditional compilation selects one side: inside -ifdef(X) ... -else
\* ... -endif (reversed for -ifndef) a token is returned to the parser only
\* from the part that the definedness of X at the -ifdef selects, and every
\* token of that part is returned.
C20_SelectsOneSide ==
    C20_InConditional =>
        /\ trace.ret = "token" => AllActive(trace.chain)
        /\ trace.unit.u = "token" /\ AllActive(trace.chain)
              => trace.ret = "token" /\ trace.token = trace.unit.tok

\* ---- C21 ---------------------------------------------------------------------
\* C21: while the preprocessor is ignoring (a frame of the branch stack has
\* entered = FALSE) next_token returns no token and nothing is waiting in
\* expanded_tokens to be returned: raw tokens are discarded, macro calls are
\* not expanded and no directive, -module included, queues tokens.
C21_NoTokenWhileIgnoring ==
    ignore(pp) => trace.ret # "token" /\ pp.expanded_tokens = <<>>

\* ---- C22 ---------------------------------------------------------------------
\* C22: conditional balance: when next_token returns Ok(None) at the end of
\* the input, the branch stack is empty or the error sink has received an
\* error.
C22_BalancedAtEnd ==
    trace.ret = "none" => pp.branches = <<>> \/ trace.reported # "none"

\* ---- C23 ---------------------------------------------------------------------
\* C23: orphan conditional directives are errors and leave the state
\* unchanged: with an empty branch stack -endif reports OrphanedEnd and -else
\* and -elif report OrphanedElse, the preprocessor (branch stack, macro
\* container, expanded_tokens) is left as it was, and the turn of next_token
\* that read the directive returns Err(()) with no token queued.
C23_OrphansRejected ==
    /\ pp.branches = <<>> =>
          \A directive \in Directives :
              directive.d \in {"endif", "else", "elif"} =>
                  LET r == try_read_directive(pp, directive)
                  IN  /\ ~r.ok
                      /\ r.errs = <<IF directive.d = "endif"
                                     THEN "OrphanedEnd" ELSE "OrphanedElse">>
                      /\ r.pp = pp
    /\ (/\ trace.unit.u = "directive"
        /\ trace.errs \in {<<"OrphanedEnd">>, <<"OrphanedElse">>})
          => /\ trace.ret = "err"
             /\ trace.token = NoTok
             /\ pp.expanded_tokens = <<>>

\* an -endif was read with the branch stack empty
C23_Witness ==
    /\ trace.unit.u = "directive"
    /\ trace.unit.d = "endif"
    /\ trace.errs = <<"OrphanedEnd">>
    /\ pp.branches = <<>>

\* ---- C24 ---------------------------------------------------------------------
\* C24: -else flips the top frame exactly once.  With then_branch set on the
\* top frame, -else clears then_branch and negates entered, and changes
\* nothing else (frames below, depth, the rest of the preprocessor); with
\* then_branch cleared, -else reports OrphanedElse and leaves the preprocessor
\* as it was.  A turn of next_token that accepted an -else leaves a top
\* frame with then_branch cleared.
C24_ElseFlipsOnce ==
    /\ pp.branches # <<>> =>
          LET n == Len(pp.branches)
              top == pp.branches[n]
              r == try_read_directive(pp, Directive("else", ""))
          IN  IF top.then_branch
              THEN /\ r.ok
                   /\ r.pp = [pp EXCEPT !.branches[n] =
                                 [then_branch |-> FALSE,
                                  entered |-> ~top.entered]]
              ELSE /\ ~r.ok
                   /\ r.errs = <<"OrphanedElse">>
                   /\ r.pp = pp
    /\ (/\ trace.unit.u = "directive"
        /\ trace.unit.d = "else"
        /\ trace.ret = "continue")
          => /\ pp.branches # <<>>
             /\ ~pp.branches[Len(pp.branches)].then_branch

\* a second -else was read on the inner of two frames
C24_Witness ==
    /\ trace.unit.u = "directive"
    /\ trace.unit.d = "else"
    /\ trace.errs = <<"OrphanedElse">>
    /\ Len(pp.branches) = 2

\* ---- C25 ---------------------------------------------------------------------
\* C25: non-fatal directive failures keep conditional frames balanced: when a
\* directive of well-formed input fails with an error other than
\* CompilerError, the error is recorded, no token is synthesized, and the
\* branch stack has one frame per conditional the input has open, as it would
\* have had the directive succeeded.
C25_FailuresKeepBalance ==
    (/\ trace.followed
     /\ trace.wellformed
     /\ trace.unit.u = "directive"
     /\ trace.ret = "err"
     /\ trace.errs # <<"CompilerError">>)
        => /\ trace.errs # <<>>
           /\ trace.token = NoTok
           /\ pp.expanded_tokens = <<>>
           /\ Len(pp.branches) = Len(trace.chain)

\* ---- C26 ---------------------------------------------------------------------
\* C26: fatal errors terminate the stream: once a CompilerError has been
\* reported (by -error, or by -warning with warnings_as_errors set and
\* no_warn unset, outside an inactive region) no later call returns a token.
C26_FatalTerminates ==
    trace.reported = "fatal" => trace.ret # "token"

\* ---- C27 ---------------------------------------------------------------------
\* C27: every raw token read by next_token, the tokens discarded while
\* ignoring included, sets can_directive_start to (the token is `.`).
C27_DirectiveStartAfterDot ==
    trace.unit.u = "token" => pp.can_directive_start = (trace.unit.tok = Dot)

\* ---- C28 ---------------------------------------------------------------------
\* C28: macro idempotence: while the input holds no directive and no macro
\* call that the reader recognizes, every turn of next_token returns the very
\* token it read (none dropped, none added from expanded_tokens, one returned
\* per token read, so the order is kept), the end of the input returns
\* Ok(None), and the branch stack and the macro container stay as
\* Preprocessor::new left them.
C28_PlainInputUnchanged ==
    trace.plain =>
        /\ trace.unit.u # "none"
              => trace.ret = "token" /\ trace.token = TextOf(trace.unit)
        /\ trace.unit.u = "none" => trace.ret \in {"start", "none"}
        /\ pp.branches = <<>>
        /\ pp.macros = Preprocessor_new(FALSE, FALSE).macros
        /\ pp.expanded_tokens = <<>>
        /\ trace.reported = "none"

\* a `-else` not preceded by a `.` was read and returned as plain text
C28_Witness ==
    /\ trace.plain
    /\ trace.unit.u = "directive"
    /\ trace.unit.d = "else"
    /\ trace.ret = "token"

\* ---- C29 ---------------------------------------------------------------------
\* C29: macro-call dispatch errors.  A call that is not FILE/LINE/MACHINE and
\* has no definition under its (name, argument count) yields UndefinedMacro;
\* a call that resolves to a Static definition whose parameter count (0
\* without a parameter list) differs from the argument count of the call (0
\* without an argument list) yields BadMacroCall; in both cases the
\* preprocessor, its macro container included, is left as it was, and the
\* turn of next_token that read the call returns Err(()) with nothing pushed
\* onto expanded_tokens.
C29_DispatchErrors ==
    /\ \A call \in MacroCalls :
          call.name \notin {"FILE", "LINE", "MACHINE"} =>
              LET r == expand_macro(pp, call)
                  key == CallIdent(call)
                  argc == IF call.has_args THEN call.argc ELSE 0
              IN  /\ key \notin DOMAIN pp.macros =>
                        /\ ~r.ok
                        /\ r.errs = <<"UndefinedMacro">>
                        /\ r.pp = pp
                  /\ (/\ key \in DOMAIN pp.macros
                      /\ pp.macros[key].kind = "Static"
                      /\ argc # (IF pp.macros[key].has_vars
                                 THEN pp.macros[key].arity ELSE 0)) =>
                        /\ ~r.ok
                        /\ r.errs = <<"BadMacroCall">>
                        /\ r.pp = pp
    /\ (/\ trace.unit.u = "call"
        /\ trace.errs \in {<<"UndefinedMacro">>, <<"BadMacroCall">>})
          => /\ trace.ret = "err"
             /\ trace.token = NoTok
             /\ pp.expanded_tokens = <<>>

\* the call ?X(1) met a Static definition X/1 with another parameter count
C29_Witness ==
    /\ trace.unit.u = "call"
    /\ trace.unit.has_args
    /\ trace.errs = <<"BadMacroCall">>

\* ---- C30 ---------------------------------------------------------------------
\* C30: -warning obeys the flags.  Outside an inactive region: with no_warn
\* set nothing is reported, whatever warnings_as_errors is; otherwise with
\* warnings_as_errors set a CompilerError goes to the error sink and no
\* diagnostic is printed; otherwise a warning diagnostic is printed and no
\* error is recorded.  The preprocessor (branch stack, macro container) is
\* left as it was, and the turn of next_token that read the directive
\* reports the same and queues no token.
C30_WarningObeysFlags ==
    LET errs == IF ~pp.no_warn /\ pp.warnings_as_errors
                THEN <<"CompilerError">> ELSE <<>>
        warned == ~pp.no_warn /\ ~pp.warnings_as_errors
    IN  ~ignore(pp) =>
            /\ LET r == try_read_directive(pp, Directive("warning", ""))
               IN  /\ r.ok = (errs = <<>>)
                   /\ r.errs = errs
                   /\ r.warned = warned
                   /\ r.pp = pp
            /\ (/\ trace.unit.u = "directive"
                /\ trace.unit.d = "warning"
                /\ trace.ret # "token")
                  => /\ trace.ret = (IF errs = <<>> THEN "continue" ELSE "err")
                     /\ trace.errs = errs
                     /\ trace.warned = warned
                     /\ pp.expanded_tokens = <<>>

\* a -warning was read with both flags set, inside an entered conditional
C30_Witness ==
    /\ trace.unit.u = "directive"
    /\ trace.unit.d = "warning"
    /\ trace.ret = "continue"
    /\ pp.no_warn /\ pp.warnings_as_errors
    /\ pp.branches # <<>> /\ ~ignore(pp)


\* ---- C31 ---------------------------------------------------------------------
\* what reading -if or -elif with the condition `condition` must make of the
\* preprocessor `before`, whose branch stack is `stack` once -elif has
\* popped its frame
ConditionOutcome(before, stack, condition, after, ret, errs) ==
    LET defined == MacroContainer_defined(before.macros, "X")
        failure ==
            IF condition = "parse_error" THEN <<"ParseError">>
            ELSE IF condition = "invalid" THEN <<"InvalidConditional">>
            ELSE IF condition = "macro" /\ defined
            THEN <<"InvalidConditional">>
            ELSE IF condition = "macro" THEN <<"UndefinedMacro">>
            ELSE <<>>
    IN  /\ after.macros = before.macros
        /\ after.expanded_tokens = before.expanded_tokens
        /\ after.can_directive_start = before.can_directive_start
        /\ after.eof = before.eof
        /\ IF condition \in {"true", "false"}
           THEN /\ ret = "continue" /\ errs = <<>>
                /\ after.branches =
                      Append(stack, Branch_new(condition = "true"))
           ELSE /\ ret = "err" /\ errs = failure
                /\ after.branches = stack

Abs(n) == IF n < 0 THEN 0 - n ELSE n

\* r is what is left of a when the quotient toward zero by b is taken away
RemainderOf(r, a, b) ==
    /\ Abs(r) < Abs(b)
    /\ a >= 0 => r >= 0
    /\ a <= 0 => r <= 0

\* C32: a + &b, a - &b, a * &b and, for b # 0, a / &b and a % &b return the
\* exact result (the quotient toward zero, the remainder with the sign of
\* a), as a Small when it fits the machine integer and as a Big only when
\* it does not.
C32_ExactAndCanonical ==
    (/\ calc.op \in {"add", "sub", "mul", "div", "rem"}
     /\ calc.op \in {"div", "rem"} => calc.rhs.v # 0)
        => LET a == calc.lhs.v
               b == calc.rhs.v
               r == calc.result
               fits == (0 - 2^(W - 1)) <= r.v /\ r.v <= 2^(W - 1) - 1
           IN  /\ r.tag \in {"Small", "Big"}
               /\ (r.tag = "Small") <=> fits
               /\ calc.op = "add" => r.v = a + b
               /\ calc.op = "sub" => r.v = a - b
               /\ calc.op = "mul" => r.v = a * b
               /\ calc.op = "div" => RemainderOf(a - r.v * b, a, b)
               /\ calc.op = "rem"
                    => /\ RemainderOf(r.v, a, b)
                       /\ \E q \in (0 - Abs(a)) .. Abs(a) : a = q * b + r.v

\* a Big beyond the machine integer is divided, with a remainder, by a
\* negative Big that a Small could hold, and the quotient is a Small
C32_Witness ==
    /\ calc.op = "div"
    /\ calc.lhs.tag = "Big" /\ calc.lhs.v > 2^(W - 1) - 1
    /\ calc.rhs.tag = "Big" /\ calc.rhs.v < 0
    /\ calc.lhs.v # calc.result.v * calc.rhs.v
    /\ calc.result.tag = "Small"


\* ---- C38 ---------------------------------------------------------------------
\* C38: -x is the exact negation of x for every Integer, the least machine
\* integer included, without a panic and without wrapping; -x and x * k are
\* a Small whenever the result fits the machine integer.
C38_NegExactScaledCanonical ==
    LET r == calc.result
        fits == (0 - 2^(W - 1)) <= r.v /\ r.v <= 2^(W - 1) - 1
    IN  /\ calc.op = "neg"
            => /\ r.tag \in {"Small", "Big"}
               /\ r.v = 0 - calc.lhs.v
               /\ fits => r.tag = "Small"
        /\ calc.op = "mul_i64"
            => /\ r.tag \in {"Small", "Big"}
               /\ r.v = calc.lhs.v * calc.rhs.v
               /\ fits => r.tag = "Small"


\* ---- C33 ---------------------------------------------------------------------
\* C33: of -if(C1) T1 -elif(C2) T2 ... -else Te -endif at most one part is
\* emitted, the first whose condition is true (Te when none is): while the
\* input is well formed, no error has been reported and every open
\* conditional is an -if, a token read from the input is returned only from
\* the part that each open conditional selects, and never from a part that
\* follows a part already taken.
C33_AtMostOneBranch ==
    (/\ trace.followed
     /\ trace.wellformed
     /\ trace.reported = "none"
     /\ trace.chain # <<>>
     /\ \A i \in 1..Len(trace.chain) : trace.chain[i].kind = "if"
     /\ trace.unit.u = "token"
     /\ trace.ret = "token")
        => AllActive(trace.chain)


\* ---- C34 ---------------------------------------------------------------------
\* C34: macro expansion terminates: for every container that -define can
\* build and every call, expand_macro returns; a turn of next_token that
\* reads a macro call ends with a token queue or an error.
C34_ExpansionReturns ==
    trace.unit.u = "call" => trace.ret # "never"


\* ---- C36 ---------------------------------------------------------------------
\* C36: a directive read while the preprocessor is ignoring only keeps the
\* frames: -define, -undef, -include, -include_lib, -error, -warning and
\* -file leave the preprocessor as it is, inject nothing and report
\* nothing; -ifdef, -ifndef and -if push exactly one frame and -endif pops
\* exactly one, and they too leave the macro container alone and report
\* nothing.
C36_IgnoredDirectivesOnlyNest ==
    [][(/\ ignore(pp)
        /\ pp.can_directive_start
        /\ trace'.unit.u = "directive")
          => LET d == trace'.unit.d
             IN  /\ d \in {"define", "undef", "include", "include_lib",
                           "error", "warning", "file"}
                    => /\ pp' = pp
                       /\ trace'.ret = "continue"
                       /\ trace'.errs = <<>>
                       /\ ~trace'.injected /\ ~trace'.warned
                 /\ d \in {"ifdef", "ifndef", "if"}
                    => /\ Len(pp'.branches) = Len(pp.branches) + 1
                       /\ PopBranch(pp'.branches) = pp.branches
                       /\ pp'.macros = pp.macros
                       /\ trace'.errs = <<>> /\ ~trace'.injected
                 /\ d = "endif"
                    => /\ pp'.branches = PopBranch(pp.branches)
                       /\ pp'.macros = pp.macros
                       /\ trace'.errs = <<>> /\ ~trace'.injected]_vars


\* ---- C35 ---------------------------------------------------------------------
\* C35: whenever the builder is in OutstandingEbbCalls(n), n is at least 1,
\* the cursor is at an op, that op is of a branching kind and the calls it
\* holds together with n make the number of edges its kind requires, and
\* add_op_ebb_call succeeds there: no method, deposition included, leaves
\* the builder where the outstanding edges cannot be supplied.
C35_NeverStranded ==
    (~panicked /\ state.tag = "OutstandingEbbCalls")
        => /\ state.n >= 1
           /\ current_op # None
           /\ RequiredEdges(fun.ops[current_op].kind) > 0
           /\ Len(fun.ops[current_op].ebb_calls) + state.n
                 = RequiredEdges(fun.ops[current_op].kind)
           /\ \A call \in 1..(Len(fun.ebb_calls) + 1) :
                 ~add_op_ebb_call(Self, call).panic


====
